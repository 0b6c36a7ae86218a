------------------------------- MODULE MCPager -------------------------------
(****************************************************************************)
(* The instance of Pager for TLC: two pages for the shell, one for a        *)
(* program it starts, and two frames, so that every page can be in either   *)
(* frame and is evicted by the other address space and by its own.          *)
(****************************************************************************)
EXTENDS Pager

ThreePages == {<<1, 0>>, <<1, 1>>, <<2, 0>>}
=============================================================================
