----------------------------- MODULE MCAuthorize -----------------------------
(* Instances of Authorize for TLC.                                         *)
EXTENDS Authorize

CONSTANTS h1, h2, a, b, m1, m2

TwoHandlers == {h1, h2}
BothUris    == {a, b}
BothUrls    == {m1, m2}

\* A client that publishes a second redirect URI and may withdraw one or both, and one whose
\* document stays as it is.
SomeDocuments == [u \in BothUrls |-> IF u = m1 THEN {{}, {a}, {a, b}} ELSE {{a}}]
==============================================================================
