-------------------------- MODULE MCRamdiskFiles --------------------------
(* The instances of MCRamdisk, for the refinement of FileSystem; and what  *)
(* is assumed of path names, directory blocks and runs, for TLC to see.    *)
EXTENDS MCRamdisk, RamdiskFiles, DirectoryBlock, PathNames, BitmapRuns
=============================================================================
