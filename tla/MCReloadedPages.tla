-------------------------- MODULE MCReloadedPages --------------------------
EXTENDS ReloadedPages

\* A column of each kind to start with, and one of them in the table to edit.
New(n) == "new_col_" \o ToString(n)
TwoColumns == <<createColumn("id", "uuid", TRUE, FALSE), createColumn("at", "text", FALSE, TRUE)>>

=============================================================================
