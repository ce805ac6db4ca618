SPECIFICATION FairSpec
CONSTANTS
    h1 = h1
    h2 = h2
    a = a
    b = b
    m1 = m1
    m2 = m2
    Missing = Missing
    Urls <- BothUrls
    Plain = {p1}
    Uris <- BothUris
    Documents <- SomeDocuments
    Handlers <- TwoHandlers
    RegistryTTL = 2
    MaxClients = 2
INVARIANT TypeOK
INVARIANT RedirectIsRegistered
INVARIANT RedirectWasPublished
PROPERTY WithdrawnUriStops
