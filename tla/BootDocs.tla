----------------------------- MODULE BootDocs -----------------------------
(***************************************************************************)
(* What comments of the repository say about physical memory, stated as a  *)
(* property of Boot and refuted by its run.                                *)
(***************************************************************************)
EXTENDS MCBoot

\* alloc.h counts "kernel image + page tables + bitmap" as reserved pages, and
\* linker.ld has the RAM "managed by page allocator" begin behind the image.  A
\* frame of the image must then never be handed out; mm_init reserves the
\* bitmap and the heap only.
DocImageNotManaged == (fb \cup user) \cap Image = {}
=============================================================================
