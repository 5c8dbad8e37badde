\* The invoice button clicked twice: is each download token used once?
CONSTANTS
    Page = Page
    x1 = x1
    x2 = x2
    k1 = k1
    k2 = k2
    k3 = k3
    NoToken = NoToken
    None = None
    Tabs = {x1, x2}
    Tokens = {k1, k2, k3}
SPECIFICATION Spec
INVARIANT SingleUse
