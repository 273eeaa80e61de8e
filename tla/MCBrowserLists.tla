--------------------------- MODULE MCBrowserLists ---------------------------
(* A TLC instance of BrowserLists.  Lists of different contexts share
   nothing, and unguarded lists of one context run the same code: a
   behaviour follows one selection.  The slots are interchangeable.        *)
EXTENDS BrowserLists, TLC

MCSelections == {{"items", "deletedItems"}, {"containers", "deletedContainers"},
                 {"active"}, {"archived"}, {"logs"}, {"stats"}, {"summary"}}

Symmetry == Permutations(Slots)
=============================================================================
