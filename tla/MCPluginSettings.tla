--------------------------- MODULE MCPluginSettings ---------------------------
(* A plugin in two versions, for TLC. *)
EXTENDS PluginSettings

\* In the first version a field is an ordinary one that is a secret in the second; the second has a
\* list of entities to read, like the Home Assistant plugin's, and a name of an account, like the
\* cameras'.
Fields == [v \in {1, 2} |-> IF v = 1 THEN {"url", "tok"} ELSE {"url", "watch"}]
Secrets == [v \in {1, 2} |-> IF v = 1 THEN {} ELSE {"tok", "user"}]
Needed == [v \in {1, 2} |-> IF v = 1 THEN {} ELSE {"tok"}]
OldValues == ("url" :> "x") @@ ("watch" :> "x")
OldSecrets == ("tok" :> "x") @@ ("user" :> "x")

\* Two lists are joined in order; one of them leaves no room for another entity.
JoinedLists == ("x" :> "x") @@ ("y" :> "both")
NoRoom == {("url" :> "x") @@ ("watch" :> "full")}

\* What an earlier version left: a list and a cleared secret; a list without room and no
\* credentials; another account without its password; another server with all its credentials.
Left == {[values |-> ("url" :> "x") @@ ("watch" :> "y"), secrets |-> << >>, marks |-> {"tok"}],
         [values |-> ("url" :> "x") @@ ("watch" :> "full"), secrets |-> << >>, marks |-> {"tok", "user"}],
         [values |-> "watch" :> "y", secrets |-> "user" :> "y", marks |-> {"tok", "user"}],
         [values |-> "url" :> "y", secrets |-> ("tok" :> "y") @@ ("user" :> "y"), marks |-> {"tok", "user"}]}
=============================================================================
