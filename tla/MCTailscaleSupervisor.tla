---------------------- MODULE MCTailscaleSupervisor ----------------------
(* Instances of TailscaleSupervisor for TLC.                               *)
EXTENDS TailscaleSupervisor, TLC

CONSTANTS o1, o2, A, B

FewOps == {o1, o2}
OneOp == {o1}
TwoIdentities == {A, B}
OneIdentity == {A}
NoIdentity == {}
AllKinds == Commands
Logins == {"begin_login", "clear_login"}
LoginAndTeardown == {"begin_login", "disconnect"}

(* Operation ids are told apart by nothing else, and so are identities.    *)
OpsAndIdentities == Permutations(FewOps) \cup Permutations(TwoIdentities)
=============================================================================
