-------------------------------- MODULE MCCron --------------------------------
(* Two jobs: one that always runs and skips the calls it missed, one that    *)
(* runs twice and repeats them.  Both have the default priority.             *)
EXTENDS Cron

CONSTANTS often, twice

MCPriority == (often :> 5) @@ (twice :> 5)
MCInterval == (often :> 1) @@ (twice :> 2)
MCDoAll == (often :> FALSE) @@ (twice :> TRUE)
MCCalls == (often :> -1) @@ (twice :> 2)
MCFirst == (often :> 0) @@ (twice :> 1)
=============================================================================
