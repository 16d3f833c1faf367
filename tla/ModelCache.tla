----------------------------- MODULE ModelCache ------------------------------
(***************************************************************************)
(* dispatcher/model_cache.go for one model hash, as functions of the       *)
(* cache: the entry of the map, and the file that the entry's path names.  *)
(* The path is made of the model hash alone, so there is one file however  *)
(* many builds of the model there have been.  A digest stands for the      *)
(* contents of a binary; NoDigest for no file, no entry and no             *)
(* binary.sha256 in the start request.                                     *)
(***************************************************************************)
CONSTANTS Digests, NoDigest

ASSUME CacheAssumption == NoDigest \notin Digests

Caches == [entry : Digests \cup {NoDigest}, file : Digests \cup {NoDigest},
           executable : BOOLEAN]

EmptyCache == [entry |-> NoDigest, file |-> NoDigest, executable |-> FALSE]

\* fileExists, and the digest asked for; without one the key decides, and
\* all builds of a model have the same key.
Hit(c, asked) == c.entry # NoDigest /\ c.file # NoDigest /\ asked \in {NoDigest, c.entry}

\* Fault: the file is not checked against the digest asked for.
Matches_Unchecked(downloaded, asked) == TRUE

\* GetFile compares before it renames the temporary file.
Matches(downloaded, asked) == asked \in {NoDigest, downloaded}

\* The rename over the old file and the new entry; the file is not yet executable.
Downloaded(c, digest) == [entry |-> digest, file |-> digest, executable |-> FALSE]

MadeExecutable(c) == [c EXCEPT !.executable = TRUE]
=============================================================================
