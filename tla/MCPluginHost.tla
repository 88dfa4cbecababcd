----------------------------- MODULE MCPluginHost -----------------------------
(* Instances of PluginHost for TLC. *)
EXTENDS PluginHost, TLC

Threads == {"t1", "t2", "t3", "t4"}
Plugins == ("t1" :> "worhp") @@ ("t2" :> "worhp") @@ ("t3" :> "worhp")
             @@ ("t4" :> "snopt7")
Outputs == ("t1" :> "quiet") @@ ("t2" :> "screen") @@ ("t3" :> "log")
             @@ ("t4" :> "quiet")
==============================================================================
