------------------------------ MODULE Service ------------------------------
(***************************************************************************)
(* What the servers have in common: each request runs in a goroutine of    *)
(* its own, and what they keep is in JSON files, each read and written as  *)
(* a whole with os.ReadFile and os.WriteFile.                              *)
(***************************************************************************)

CONSTANTS
    Client,     \* requests that run at the same time
    NoFile,     \* a file that does not exist
    Broken,     \* a file that does not parse
    DiskFaults, \* os.WriteFile may fail, and may leave the file cut short
    Stops       \* the process may stop and be started again

\* What a file holds after a write: whole, or as it was, or cut short.
Written(new, old) == {new} \cup IF DiskFaults THEN {old, Broken} ELSE {}
=============================================================================
