-------------------------- MODULE MCOrderDetailPage --------------------------
\* The order detail page with its invoice button, for TLC.
EXTENDS OrderDetailPage

\* The invoice token properties, for the tokens of the page's downloads.
SingleUse == Inv!SingleUse
OneLiveToken == Inv!OneLiveToken

=============================================================================
