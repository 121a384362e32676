----------------------------- MODULE MCProvider -----------------------------
(* Statuses of the gateway for calls with a few configured names. *)
EXTENDS Provider

\* One status on each side of every boundary of StatusCode.
MCStatuses == {302, 400, 401, 403, 404, 429, 499, 500, 599}
=============================================================================
