---------------------------- MODULE MCToolBridge ----------------------------
(* A read-only tool and an effectful one with a stable key, called twice with *)
(* different arguments.                                                       *)
EXTENDS ToolBridge

CONSTANTS a1, a2

Call(tool, id, args) == [tool |-> tool, id |-> id, actor |-> "alice", args |-> args]

Mail == Call("mail", "m1", "x")
MailOther == Call("mail", "m1", "y")
Look == Call("look", "l1", "x")

FullRegistration ==
    [t \in {"mail", "look", "pay", "shell", "scoped"} |->
        [readOnly |-> t \in {"look", "shell"},
         stableKey |-> t \in {"mail"},
         scopes |-> IF t = "scoped" THEN {"admin"} ELSE {},
         caps |-> {"FsRead"},
         schema |-> {"x", "y"}]]

FullAuthority ==
    [layer \in {"workflow", "skill", "tenant", "role", "scopes", "runtime", "sandbox"} |->
        IF layer = "scopes" THEN {}
        ELSE IF layer = "runtime" THEN {"FsRead", "Network"}
        ELSE IF layer = "sandbox" THEN {"FsRead"}
        ELSE {"mail", "look", "pay", "shell", "scoped"}]

EffectCalls == {Mail, MailOther}
BridgeCalls == {Mail, MailOther, Look}
GrantMail == EffectCalls \intersect Calls
ReadNeedsApproval == {c \in Calls : c.tool = "look" /\ c.id = "l2"}
ShellCaps == [c \in Calls |-> IF c.tool = "shell" THEN {"Network"} ELSE {}]
=============================================================================
