---------------------------- MODULE MCFolderView ----------------------------
EXTENDS FolderView
CONSTANTS f1, f2, f3
MCRows == <<f1, f2, f3>>
==============================================================================
