---------------------------- MODULE MCWorkspaceLive ----------------------------
(* Instances of WorkspaceLive: one zone and one contract, seen through two *)
(* sessions, of which one sees the contracts only.                         *)
EXTENDS WorkspaceLive

MCContract == [id |-> 1, zone |-> 1, sup |-> "s1", status |-> "Planning", report |-> 0]
MCStart ==
  [zones |-> <<[id |-> 1, name |-> "a", count |-> 1]>>, contracts |-> <<MCContract>>,
   engineers |-> <<>>, users |-> <<>>, milestones |-> <<>>, materials |-> <<>>, roles |-> <<>>,
   projects |-> <<>>, tasks |-> <<>>, audit |-> <<>>, assistance |-> <<>>, photos |-> <<>>,
   scan |-> None, serial |-> 1]
MCStartDb == {MCStart}

Admin == [role |-> "super_admin", permissions |-> {}, sup |-> None]
Reader == [role |-> "viewer", permissions |-> {"contracts.read"}, sup |-> None]
MCSessions == {Admin, Reader}
OneSession == {Admin}
NoWs == {}

MCWorkspaces == {[zones |-> <<>>, contracts |-> <<>>, engineers |-> <<>>, users |-> <<>>]}
MCFrontends == {}
===============================================================================
