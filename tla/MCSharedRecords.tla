-------------------------- MODULE MCSharedRecords ---------------------------
(* Instances for TLC of records that several workers write: the lease of a *)
(* TCP target (TargetLease), two workers and three connection ids, one for *)
(* each worker and one for what a crash or a lost answer leaves; the       *)
(* catalogue of channels and devices (Channels), two concurrent requests   *)
(* on a small catalogue in any of the states Started; and the versions of  *)
(* the runtime configuration (Snapshots), two workers and a collector, and *)
(* three versions or two and a failure.                                    *)
(* Each behaviour runs one of them; the others stay as they are.           *)
EXTENDS TargetLease, Channels, Snapshots, TLC

CONSTANTS a, b

VARIABLE focus

\* The workers of the lease, the requests and the Service Workers.
Two == {a, b}
Alike == Permutations(Two)

Nodes == "e1" :> 1 @@ "e2" :> 2
Protocols == "mp" :> "p" @@ "mq" :> "q"

allVars == <<vars, catalogVars, snapshotVars, focus>>

LinkOf(on, p, x) ==
  [state |-> "live", enabled |-> on, protocol |-> p, settings |-> x]
Bound(l, m, x) == [state |-> "live", link |-> l, model |-> m, settings |-> x]

\* Device d1 uses the endpoint e1, d2 may not exist yet, be on the channel c1
\* or share e1.
Started ==
  /\ link = "c1" :> LinkOf(TRUE, "p", Unset)
            @@ "e1" :> LinkOf(TRUE, "p", "s1")
            @@ "e2" :> LinkOf(FALSE, "q", "s1")
  /\ model = Model
  /\ device \in {"d1" :> Bound("e1", "mp", "s1") @@ "d2" :> r :
       r \in {NoRow, Bound("c1", "mp", Unset), Bound("e1", "mp", "s1")}}
  /\ txn = [t \in Txn |-> Idle]
  /\ held = [t \in Txn |-> {}]
  /\ requests = 0

InitAll ==
  /\ focus \in {"lease", "catalog", "snapshots"}
  /\ Init /\ InitSnapshots
  /\ InitCatalog \/ (focus = "catalog" /\ Started)

\* The leases never stop; requests end, and so do the bounded versions.
NextAll ==
  \/ focus = "lease" /\ Next /\ UNCHANGED <<catalogVars, snapshotVars, focus>>
  \/ focus = "catalog" /\ NextCatalog /\ UNCHANGED <<vars, snapshotVars, focus>>
  \/ /\ focus = "snapshots" /\ NextSnapshots /\ UNCHANGED <<vars, catalogVars, focus>>
     /\ faults' = 0 \/ versions' <= 2
  \/ focus # "lease" /\ UNCHANGED allVars

SpecAll == InitAll /\ [][NextAll]_allVars
=============================================================================
