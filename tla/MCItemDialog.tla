---------------------------- MODULE MCItemDialog ----------------------------
EXTENDS ItemDialog

=============================================================================
