----------------------------- MODULE DriveQuery -----------------------------
(***************************************************************************)
(* build_drive_query (drive_query.py): the search string for Google Drive, *)
(* composed from the filters of drive-search-files, and how Drive reads    *)
(* it. A text is a sequence of symbols: the quote, the backslash, a letter *)
(* and the words of the query language, each as one symbol, which may also *)
(* occur in what the caller searches for.                                  *)
(***************************************************************************)
EXTENDS Naturals, Sequences

CONSTANTS
    MaxLong,    \* bound: length of the text of a lone filter
    MaxShort    \* bound: length of the texts of two filters at once

ASSUME TextsAssumption == MaxLong \in Nat /\ MaxShort \in Nat

Quote == "'"
Backslash == "\\"
Symbols == {Quote, Backslash, "x", " and "}

\* str.replace of one symbol by a text; upTo[n] is the result for the first n
\* symbols. (A recursive function, so that it can be reasoned about.)
Replace(s, c, t) ==
    LET upTo[n \in 0..Len(s)] ==
            IF n = 0 THEN <<>> ELSE upTo[n - 1] \o (IF s[n] = c THEN t ELSE <<s[n]>>)
    IN  upTo[Len(s)]

\* Mutant: the quotes are escaped before the backslashes.
EscapeMutant(s) ==
    Replace(Replace(s, Quote, <<Backslash, Quote>>), Backslash, <<Backslash, Backslash>>)

\* _escape: backslashes before quotes.
Escape(s) ==
    Replace(Replace(s, Backslash, <<Backslash, Backslash>>), Quote, <<Backslash, Quote>>)

Quoted(s) == <<Quote>> \o s \o <<Quote>>

\* A filter that is absent or empty has no clause; " and ".join of the others.
Clause(given, q) == IF given THEN q ELSE <<>>
And(q, r) == IF q = <<>> \/ r = <<>> THEN q \o r ELSE q \o <<" and ">> \o r

Build(f) ==
    LET name == Clause(f.name_contains # <<>>,
                       <<"name contains ">> \o Quoted(Escape(f.name_contains)))
        text == Clause(f.full_text # <<>>,
                       <<"fullText contains ">> \o Quoted(Escape(f.full_text)))
        mime == Clause(f.mime_type # <<>>, <<"mimeType = ">> \o Quoted(Escape(f.mime_type)))
        folder == Clause(f.in_folder # <<>>, Quoted(Escape(f.in_folder)) \o <<" in parents">>)
        after == Clause(f.modified_after,
                        <<"modifiedTime > ">> \o Quoted(<<"date", "T00:00:00">>))
        trashed == Clause(~f.include_trashed, <<"trashed = false">>)
    IN  And(And(And(And(And(name, text), mime), folder), after), trashed)

\* _require_filter: a search names at least one filter.
RequireFilter(f) ==
    \/ f.name_contains # <<>> \/ f.full_text # <<>> \/ f.mime_type # <<>>
    \/ f.in_folder # <<>> \/ f.modified_after

-----------------------------------------------------------------------------
(* How Drive reads a query: literals in quotes, a backslash in a literal   *)
(* makes the next symbol part of it, and everything else is a word.        *)

Word(c) == [literal |-> FALSE, text |-> <<c>>]
Literal(s) == [literal |-> TRUE, text |-> s]

ReadSymbol(state, c) ==
    CASE state.mode = "word" /\ c = Quote -> [state EXCEPT !.mode = "literal", !.text = <<>>]
      [] state.mode = "word" /\ c # Quote -> [state EXCEPT !.tokens = Append(@, Word(c))]
      [] state.mode = "literal" /\ c = Backslash -> [state EXCEPT !.mode = "escaped"]
      [] state.mode = "literal" /\ c = Quote ->
            [state EXCEPT !.mode = "word", !.tokens = Append(@, Literal(state.text))]
      [] OTHER -> [state EXCEPT !.mode = "literal", !.text = Append(@, c)]

Start == [mode |-> "word", text |-> <<>>, tokens |-> <<>>]

Read(q) ==
    LET upTo[n \in 0..Len(q)] == IF n = 0 THEN Start ELSE ReadSymbol(upTo[n - 1], q[n])
    IN  upTo[Len(q)]

\* The question the filters ask, as tokens.
AndTokens(q, r) == IF q = <<>> \/ r = <<>> THEN q \o r ELSE q \o <<Word(" and ")>> \o r

Meaning(f) ==
    LET contains(word, s) == Clause(s # <<>>, <<Word(word), Literal(s)>>)
        folder == Clause(f.in_folder # <<>>, <<Literal(f.in_folder), Word(" in parents")>>)
        after == Clause(f.modified_after,
                        <<Word("modifiedTime > "), Literal(<<"date", "T00:00:00">>)>>)
        trashed == Clause(~f.include_trashed, <<Word("trashed = false")>>)
    IN  AndTokens(AndTokens(AndTokens(AndTokens(AndTokens(
            contains("name contains ", f.name_contains),
            contains("fullText contains ", f.full_text)),
            contains("mimeType = ", f.mime_type)), folder), after), trashed)

-----------------------------------------------------------------------------
Texts(n) == UNION {[1..k -> Symbols] : k \in 0..n}

Filters(names, texts, types, folders) ==
    [name_contains : names, full_text : texts, mime_type : types, in_folder : folders,
     modified_after : BOOLEAN, include_trashed : BOOLEAN]

\* Drive reads the query that is built from the filters f as the question they
\* ask: every literal comes back unchanged, and no word of the query comes from
\* inside one.
AsksItsFilters(f) ==
    LET read == Read(Build(f)) IN read.mode = "word" /\ read.tokens = Meaning(f)

\* So it is whatever the filters hold, quotes, backslashes and words of the
\* language included.
QueryMeansFilters ==
    LET filters(names, folders) ==
            Filters(names, {<<>>, <<Quote>>}, {<<>>, <<Backslash>>}, folders)
    IN  \A f \in filters(Texts(MaxShort), Texts(MaxShort)) \union filters(Texts(MaxLong), {<<>>}) :
            RequireFilter(f) => AsksItsFilters(f)
=============================================================================
