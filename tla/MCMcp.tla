------------------------------- MODULE MCMcp --------------------------------
EXTENDS Mcp
MCRequests == (Calls \X {"init", "op"}) \union Strangers
MCAllowedTools == [s \in Servers |-> IF s = Own THEN {"status", "secret"} ELSE {}]
MCPolicyAllows == {<<Own, "status">>}
=============================================================================
