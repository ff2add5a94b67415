-------------------------------- MODULE Hsm --------------------------------
(***************************************************************************)
(* The software HSM (chambers-gateway/src/hsm/mod.rs): a table of session  *)
(* keys behind opaque handles.  A handle is issued once, its key is Active *)
(* until it is destroyed, and a destroyed key stays in the table as a      *)
(* tombstone.  The module offers the operations that take the HSM's lock;  *)
(* the Gateway module decides who calls them and when.                     *)
(***************************************************************************)
EXTENDS Integers

VARIABLES
  keys,        \* the key table: issued handle -> "Active" or "Destroyed"
  nextHandle   \* the next handle to issue

hsmVars == <<keys, nextHandle>>

KeyStates == {"Active", "Destroyed"}

NoHandle == 0

HsmTypeOK ==
  /\ nextHandle \in Nat \ {0}
  /\ keys \in [1 .. (nextHandle - 1) -> KeyStates]

HsmInit ==
  /\ keys = [h \in {} |-> "Active"]
  /\ nextHandle = 1

(* is_key_active: a handle that was never issued is reported inactive. *)
IsKeyActive(h) == h \in DOMAIN keys /\ keys[h] = "Active"

(* Mutant: the handle counter does not advance. *)
GenerateKeySameHandle ==
  /\ keys' = [h \in 1 .. nextHandle |->
                IF h = nextHandle THEN "Active" ELSE keys[h]]
  /\ UNCHANGED nextHandle

GenerateKey ==
  /\ keys' = [h \in 1 .. nextHandle |->
                IF h = nextHandle THEN "Active" ELSE keys[h]]
  /\ nextHandle' = nextHandle + 1

(* Mutant: destroy_key leaves the key in place. *)
DestroyKeyKept(h) == UNCHANGED hsmVars

(* destroy_key: the key material is zeroed and the tombstone written; a    *)
(* key that is already destroyed, or a handle never issued, is an error    *)
(* that changes nothing.                                                   *)
DestroyKey(h) ==
  /\ keys' = IF IsKeyActive(h) THEN [keys EXCEPT ![h] = "Destroyed"] ELSE keys
  /\ UNCHANGED nextHandle

=============================================================================
