----------------------------- MODULE MCExplorer -----------------------------
EXTENDS Explorer

\* Three rows, two to a page: the second page has an index the first has too.
MCKeys == 1..3
MCFilters == {"f"}

\* The filter lets through two rows that are not together on the first page.
MCMatching == [f \in MCFilters |-> {2, 3}]

=============================================================================
