-------------------------- MODULE SessionDataStore --------------------------
(***************************************************************************)
(* The store of encrypted blobs (chambers-gateway/src/burn/mod.rs,         *)
(* SessionDataStore): per session a list of entries.  An entry is named by *)
(* the record it was made from, so a set stands for the list; its bytes    *)
(* are abstracted to what they are, the sealed record, random noise or     *)
(* zeros.  The map has an entry list for a session exactly when that list  *)
(* is not empty, because store() pushes whenever it creates one.           *)
(***************************************************************************)
EXTENDS Naturals

CONSTANTS
  Sessions,  \* session identifiers, each issued at most once
  Records    \* data records, each handed to the gateway at most once

VARIABLE store  \* session -> its entries

Contents == {"sealed", "noise", "zeros"}

DataEntry == [rec: Records, key: Nat, content: Contents, deleted: BOOLEAN]

StoreTypeOK == store \in [Sessions -> SUBSET DataEntry]

StoreInit == store = [s \in Sessions |-> {}]

(* store(): pushes the blob, creating the session's list when it is absent. *)
StoreBlob(s, r, h) ==
  store' = [store EXCEPT ![s] = @ \union
              {[rec |-> r, key |-> h, content |-> "sealed", deleted |-> FALSE]}]

MarkDeleted(s) ==
  store' = [store EXCEPT ![s] = {[e EXCEPT !.deleted = TRUE] : e \in @}]

OverwriteWithRandom(s) ==
  store' = [store EXCEPT ![s] = {[e EXCEPT !.content = "noise"] : e \in @}]

ZeroMemory(s) ==
  store' = [store EXCEPT ![s] = {[e EXCEPT !.content = "zeros"] : e \in @}]

(* Mutant: layer 5 leaves the session's entries. *)
RemoveSessionKept(s) == UNCHANGED store

RemoveSession(s) == store' = [store EXCEPT ![s] = {}]

HasSession(s) == store[s] # {}

=============================================================================
