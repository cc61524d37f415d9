-------------------------- MODULE ImportLifecycle ---------------------------
(* What an import promises, without leases, daemons, locks or transactions:   *)
(* it is inspected in at most MaxAttempts attempts and decided by one of      *)
(* them, and registering it puts its content, in the form that the mapping in *)
(* force gives it, into the catalog of its asset, where no other form of the  *)
(* same content is.                                                           *)
EXTENDS Naturals

CONSTANTS Sessions, Assets, Raws, Mappings, MaxAttempts, None

VARIABLES phase,     \* what the client sees of the import
          asset,     \* the asset it imports into
          raw,       \* its staged content
          mapping,   \* its column-name mapping
          attempts,
          catalog    \* the contents each asset has, with their forms

importVars == <<phase, asset, raw, mapping, attempts, catalog>>

Init ==
  /\ phase = [s \in Sessions |-> "ABSENT"]
  /\ asset = [s \in Sessions |-> None]
  /\ raw = [s \in Sessions |-> None]
  /\ mapping = [s \in Sessions |-> CHOOSE m \in Mappings : TRUE]
  /\ attempts = [s \in Sessions |-> 0]
  /\ catalog = [a \in Assets |-> {}]

Become(s, p) == phase' = [phase EXCEPT ![s] = p]

(* An import of what the client has still to upload, or of what is there. *)
Create(s, a, object) ==
  /\ phase[s] = "ABSENT"
  /\ Become(s, IF object = None THEN "OPEN" ELSE "STAGED")
  /\ asset' = [asset EXCEPT ![s] = a]
  /\ raw' = [raw EXCEPT ![s] = object]
  /\ UNCHANGED <<mapping, attempts, catalog>>

Stage(s, object) ==
  /\ phase[s] = "OPEN"
  /\ Become(s, "STAGED")
  /\ raw' = [raw EXCEPT ![s] = object]
  /\ UNCHANGED <<asset, mapping, attempts, catalog>>

(* A first attempt, or one in the place of another that came to nothing. *)
Attempt(s) ==
  /\ phase[s] \in {"STAGED", "VERIFYING"}
  /\ attempts[s] < MaxAttempts
  /\ Become(s, "VERIFYING")
  /\ attempts' = [attempts EXCEPT ![s] = @ + 1]
  /\ UNCHANGED <<asset, raw, mapping, catalog>>

Decide(s) ==
  /\ phase[s] = "VERIFYING"
  /\ \E p \in {"VERIFIED", "REJECTED", "FAILED"} : Become(s, p)
  /\ UNCHANGED <<asset, raw, mapping, attempts, catalog>>

Reconfigure(s, m) ==
  /\ phase[s] \in {"VERIFIED", "REJECTED"}
  /\ Become(s, "STAGED")
  /\ mapping' = [mapping EXCEPT ![s] = m]
  /\ UNCHANGED <<asset, raw, attempts, catalog>>

Abort(s) ==
  /\ phase[s] \in {"OPEN", "STAGED", "VERIFIED"}
  /\ Become(s, "ABORTED")
  /\ UNCHANGED <<asset, raw, mapping, attempts, catalog>>

Register(s) ==
  LET content == [raw |-> raw[s], mapping |-> mapping[s]]
  IN /\ phase[s] = "VERIFIED"
     /\ \A c \in catalog[asset[s]] : c.raw = raw[s] => c = content
     /\ Become(s, "REGISTERED")
     /\ catalog' = [catalog EXCEPT ![asset[s]] = @ \union {content}]
     /\ UNCHANGED <<asset, raw, mapping, attempts>>

Next ==
  \E s \in Sessions :
    \/ \E a \in Assets, object \in Raws \union {None} : Create(s, a, object)
    \/ \E object \in Raws : Stage(s, object)
    \/ \E m \in Mappings : Reconfigure(s, m)
    \/ Attempt(s) \/ Decide(s) \/ Abort(s) \/ Register(s)

Spec == Init /\ [][Next]_importVars
=============================================================================
