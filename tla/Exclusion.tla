------------------------------ MODULE Exclusion ------------------------------
(***************************************************************************)
(* Which paths core/scanner.py leaves out.  A path is the sequence of its  *)
(* names below the drive.                                                  *)
(*                                                                         *)
(* Not covered: upper and lower case (excluded paths are compared without  *)
(* regard to it, excluded names are not).                                  *)
(***************************************************************************)
EXTENDS SequencesExt

CONSTANTS ExcludedPaths,   \* config.load_excluded_paths()
          ExcludedDirs,    \* config.load_excluded_dirs()
          Hidden,          \* names that start with . or $
          Temporary        \* names that start with ~$

\* _should_exclude: the name of a temporary file counts at the end of a path
\* only, an excluded or hidden name anywhere in it.
ShouldExclude(path) ==
  \/ path # <<>> /\ Last(path) \in Temporary
  \/ \E q \in ExcludedPaths : IsPrefix(q, path)
  \/ \E i \in DOMAIN path : path[i] \in ExcludedDirs \cup Hidden
=============================================================================
