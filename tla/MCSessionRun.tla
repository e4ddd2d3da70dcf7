---------------------------- MODULE MCSessionRun ----------------------------
(* Small instances of SessionRun for TLC.                                   *)
EXTENDS SessionRun, TLC

CONSTANTS s1, s2, d1, d2, e1, e2, e3, t1, t2

(* Two streams of one device share the pooled events.                       *)
OneDeviceStreams == [s \in {s1, s2} |-> d1]
OneDeviceEvents == [e \in {e1, e2, e3} |-> d1]

(* One stream on each of two devices: events must not cross.                *)
TwoDeviceStreams == [s \in {s1, s2} |-> IF s = s1 THEN d1 ELSE d2]
TwoDeviceEvents == [e \in {e1, e2, e3} |-> IF e = e3 THEN d2 ELSE d1]

(* Two runs that share a storage, as two inferences on one input do.        *)
SharedBindings == {{t1}, {t1, t2}}

OneBinding == {{t1, t2}}

Symmetric == Permutations(Contexts) \cup Permutations(Events)
=============================================================================
