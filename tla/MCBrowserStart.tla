--------------------------- MODULE MCBrowserStart ---------------------------
EXTENDS BrowserStart

CONSTANT page

MCPages == {page}
=============================================================================
