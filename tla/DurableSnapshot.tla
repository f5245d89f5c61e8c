--------------------------- MODULE DurableSnapshot ---------------------------
(***************************************************************************)
(* What a store that keeps its newest state in files promises its callers. *)
(* The state in memory only moves forward: its version is `content`.  A    *)
(* file holds the version it was last written with; a file never goes back *)
(* to an older one, and never runs ahead of memory.  A caller that has been *)
(* told "saved" (acked) can rely on a file with its version or a newer one. *)
(*                                                                         *)
(* The group-commit savers of ban_store.go (module BanSave) and store.go   *)
(* (module ResultStore) are compared with this specification.              *)
(***************************************************************************)
EXTENDS Integers

CONSTANT Paths       \* the files a snapshot may be written to

VARIABLES
  content,           \* version of the state in memory
  disk,              \* disk[p]: version file p holds
  acked              \* acked[p]: newest version a caller was told is in p

vars == <<content, disk, acked>>

Init ==
  /\ content = 0
  /\ disk = [p \in Paths |-> 0]
  /\ acked = [p \in Paths |-> 0]

(* The program changes the state it keeps in memory. *)
Mutate ==
  /\ content' = content + 1
  /\ UNCHANGED <<disk, acked>>

(* A file is replaced, as a whole, by a version that is not older. *)
Write(p) ==
  /\ \E s \in disk[p] .. content : disk' = [disk EXCEPT ![p] = s]
  /\ UNCHANGED <<content, acked>>

(* A caller is told that the version it asked for is in file p. *)
Acknowledge(p) ==
  /\ \E s \in acked[p] .. disk[p] : acked' = [acked EXCEPT ![p] = s]
  /\ UNCHANGED <<content, disk>>

Next == Mutate \/ \E p \in Paths : Write(p) \/ Acknowledge(p)

Spec == Init /\ [][Next]_vars
=============================================================================
