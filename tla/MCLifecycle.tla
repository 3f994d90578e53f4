----------------------------- MODULE MCLifecycle -----------------------------
(* TenantLifecycle on small instances.                                     *)
EXTENDS TenantLifecycle
=============================================================================
