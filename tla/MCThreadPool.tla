---------------------------- MODULE MCThreadPool ----------------------------
(* Instances of ThreadPool for TLC. *)
EXTENDS ThreadPoolRefinement

(* Three small files, one of which has a block of its own: the second       *)
(* fragment does not fit, the third is a duplicate.                         *)
MixedInput ==
  FileBlocks(1, {}, <<1, 2>>) \o FileBlocks(2, {}, <<3, 4>>)
    \o FileBlocks(3, {}, <<5, 5, 5, 1, 2>>)

(* Holes, and two fragments that share a block. *)
SparseInput ==
  FileBlocks(1, {}, <<0, 0, 0, 2>>) \o FileBlocks(2, {}, <<0, 0>>)
    \o FileBlocks(3, {}, <<3, 4>>)

(* Every fragment fills a fragment block of its own; the last block is      *)
(* submitted by sqfs_block_processor_submit_block.                          *)
FragmentInput ==
  FileBlocks(1, {}, <<1, 2>>) \o FileBlocks(2, {}, <<3, 4>>)
    \o FileBlocks(3, {"DONT_FRAGMENT"}, <<7, 8>>) \o FileBlocks(4, {}, <<5, 6>>)
    \o <<NewBlock(NoInode, 0, {"MANUAL_SUBMISSION"}, <<9, 9>>)>>

MCInodes == 1 .. 4
MCInputs == {MixedInput, SparseInput, FragmentInput}
=============================================================================
