\* Two downloads of the invoice, three tokens; every status the page can
\* open on.
CONSTANTS
    Page = Page
    x1 = x1
    x2 = x2
    k1 = k1
    k2 = k2
    k3 = k3
    NoToken = NoToken
    None = None
    Tabs = {x1, x2}
    Tokens = {k1, k2, k3}
SPECIFICATION FairSpec
\* The page may sit idle once the user stops: deadlock is not an error.
CHECK_DEADLOCK FALSE
INVARIANT TypeOK
PROPERTY PaymentResultShown
