---------------------------- MODULE MCComponents ----------------------------
(* The parts of which only safety is asked, for TLC, one in each           *)
(* behaviour, as subject says: the balancers' pickers, the back-off, the   *)
(* tokens, the authorizers, the second factor, the plugin manager, the     *)
(* compressor and the message pool.                                        *)
EXTENDS Pickers, LeastActive, WeightRoundRobin, Backoff, Tokens, Access, Plugins, Compressor, Mfa, MessagePool

(* Codes that differ from period to period, and that two secrets share in  *)
(* different periods.                                                      *)
SomeOtp(secret, p) == (3 * secret + p) % 5

VARIABLE subject

vars == <<subject, pickerVars, leastVars, wrrVars, backoffVars, tokenVars, accessVars, pluginVars,
          compressorVars, mfaVars, messagePoolVars>>

Subjects == {"pickers", "least", "weighted", "backoff", "tokens", "access", "plugins", "compressor",
             "mfa", "messagepool"}

Init ==
    /\ subject \in Subjects
    /\ IF subject = "pickers" THEN PickersInit
       ELSE Build("random", FALSE, [c \in Conns |-> "a"], [c \in Conns |-> 0])
    /\ IF subject = "least" THEN LeastActiveInit ELSE BuildLeastActive(Pool)
    /\ IF subject = "weighted" THEN WrrInit ELSE WeightBalancerBuild([c \in Backends |-> 1])
    /\ IF subject = "backoff" THEN BackoffInit ELSE NewRetrier("Do", "Exponential", FALSE)
    /\ NewCustomTokenManager /\ (subject # "tokens" => store = "memory" /\ userStored = TRUE)
    /\ IF subject = "access" THEN AccessInit ELSE NewRBACAuthorizer("user")
    /\ NewManager
    /\ IF subject = "compressor" THEN CompressorInit ELSE Compress(1)
    /\ IF subject = "mfa" THEN MfaInit ELSE NewMFAAuthenticator("memory", FALSE)
    /\ IF subject = "messagepool" THEN MessagePoolInit ELSE NewMessagePool(FALSE, {})

Next ==
    \/ /\ subject = "pickers" /\ PickersNext
       /\ UNCHANGED <<subject, leastVars, wrrVars, backoffVars, tokenVars, accessVars, pluginVars, compressorVars,
                      mfaVars, messagePoolVars>>
    \/ /\ subject = "least" /\ LeastActiveNext
       /\ UNCHANGED <<subject, pickerVars, wrrVars, backoffVars, tokenVars, accessVars, pluginVars, compressorVars,
                      mfaVars, messagePoolVars>>
    \/ /\ subject = "weighted" /\ WrrNext
       /\ UNCHANGED <<subject, pickerVars, leastVars, backoffVars, tokenVars, accessVars, pluginVars, compressorVars,
                      mfaVars, messagePoolVars>>
    \/ /\ subject = "backoff" /\ BackoffNext
       /\ UNCHANGED <<subject, pickerVars, leastVars, wrrVars, tokenVars, accessVars, pluginVars, compressorVars,
                      mfaVars, messagePoolVars>>
    \/ /\ subject = "tokens" /\ TokensNext
       /\ UNCHANGED <<subject, pickerVars, leastVars, wrrVars, backoffVars, accessVars, pluginVars, compressorVars,
                      mfaVars, messagePoolVars>>
    \/ /\ subject = "access" /\ AccessNext
       /\ UNCHANGED <<subject, pickerVars, leastVars, wrrVars, backoffVars, tokenVars, pluginVars, compressorVars,
                      mfaVars, messagePoolVars>>
    \/ /\ subject = "plugins" /\ PluginsNext
       /\ UNCHANGED <<subject, pickerVars, leastVars, wrrVars, backoffVars, tokenVars, accessVars, compressorVars,
                      mfaVars, messagePoolVars>>
    \/ /\ subject = "compressor" /\ CompressorNext
       /\ UNCHANGED <<subject, pickerVars, leastVars, wrrVars, backoffVars, tokenVars, accessVars, pluginVars,
                      mfaVars, messagePoolVars>>
    \/ /\ subject = "mfa" /\ MfaNext
       /\ UNCHANGED <<subject, pickerVars, leastVars, wrrVars, backoffVars, tokenVars, accessVars, pluginVars, compressorVars,
                      messagePoolVars>>
    \/ /\ subject = "messagepool" /\ MessagePoolNext
       /\ UNCHANGED <<subject, pickerVars, leastVars, wrrVars, backoffVars, tokenVars, accessVars, pluginVars, compressorVars,
                      mfaVars>>

Spec == Init /\ [][Next]_vars

=============================================================================
