--------------------------- MODULE MCPagedSource ---------------------------
(***************************************************************************)
(* Model checking of PagedSource with the sources of Connectors: each with a *)
(* collection of two items, on pages of one item.                            *)
(***************************************************************************)
EXTENDS PagedSource, Connectors

MCItems == 1 .. 2

\* tables replaced with what the changed parents have
ReplacedByChanged == {CustomerIoTestGroups, HostawayCalendars}
=============================================================================
