-------------------------- MODULE ConnectorFeatures --------------------------
(***************************************************************************)
(* How a paged source is described: by the features that module PagedSource  *)
(* tells apart, in three parts.                                              *)
(***************************************************************************)
EXTENDS TLC

\* how the client loops over pages
Paging(position, stop, error) ==
  [position |-> position, stop |-> stop, error |-> error]
\* what the service lists, by which of its times, and for which parents
Listing(order, stamp, parents) ==
  [order |-> order, stamp |-> stamp, parents |-> parents]

\* everything, in every run
Whole(write) ==
  [filter |-> "server", from |-> "all", upto |-> "open", write |-> write]
\* what is not older than the cursor of dlt.sources.incremental
Since(filter, from, upto) ==
  [filter |-> filter, from |-> from, upto |-> upto, write |-> "merge"]
=============================================================================
