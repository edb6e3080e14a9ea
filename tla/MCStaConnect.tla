---------------------------- MODULE MCStaConnect ----------------------------
(* Instances of StaConnect for TLC. *)
EXTENDS StaConnect, TLC

Mode(a, t) == [auth |-> a, type |-> t]
OpenModes == {Mode("open", "infra"), Mode("open", "adhoc")}
RequestModes == {Mode("shared", "infra"), Mode("open", "adhoc")}
ReturnModes == {Mode("autoswitch", "infra"), Mode("wpapsk", "infra")}
InfraMode == {Mode("open", "infra")}

\* Handlers only compare BSSIDs for equality; the orders in which a table may
\* be sorted, and whether an ad hoc BSSID is the larger, are left open.
Symmetric == Permutations(Bss)
=============================================================================
