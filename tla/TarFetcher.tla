----------------------------- MODULE TarFetcher -----------------------------
(***************************************************************************)
(* fetcher/tar_fetcher: a tar file on disk as a base image of one layer.   *)
(* Its chain id is made of its path and the time it was last changed.  A   *)
(* file is a record of its kind ("file", "dir" or "none"), its time and    *)
(* its content.                                                            *)
(***************************************************************************)
EXTENDS Naturals

\* Mutant: the time is not part of the chain id.
generateChainIDOfPath(path, mtime) == <<path, 1>>

generateChainID(path, mtime) == <<path, mtime>>

\* BaseImageInfo: any file or directory will do.
HasInfo(file) == file.kind # "none"
BaseImageInfo(path, file) == generateChainID(path, file.mtime)

\* StreamBlob: the file as it is by now, unless it is a directory.
validateBaseImage(file) == file.kind # "dir"
CanStream(file) == file.kind # "none" /\ validateBaseImage(file)
=============================================================================
