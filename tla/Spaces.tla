------------------------------- MODULE Spaces -------------------------------
(***************************************************************************)
(* The spaces that engines, paths and threads pass around: whatever stands *)
(* for one, it is not the null pointer.                                    *)
(***************************************************************************)
CONSTANT NoSpace   \* the null pointer
=============================================================================
