-------------------------------- MODULE Mfa --------------------------------
(***************************************************************************)
(* The second factor of one workspace, control/api/mfa.go.  Enrolling and  *)
(* disabling write several rows one statement after the other, outside a   *)
(* transaction: each may fail, and calls of other requests come between.   *)
(*                                                                         *)
(* A TOTP secret is named by the call that confirmed it.                   *)
(***************************************************************************)
EXTENDS Naturals

CONSTANTS
    Confirmer,   \* calls of ConfirmEnrollment
    Disabler,    \* calls of Disable
    Codes,       \* recovery codes of an enrollment: 10
    NoSecret

Code == Confirmer \X (1 .. Codes)

ASSUME MfaAssumption ==
    /\ Codes \in Nat \ {0} /\ NoSecret \notin Confirmer \cup Code
    /\ Confirmer \cap Disabler = {} /\ Confirmer \cap Code = {}

VARIABLES
    secret,      \* the row of workspace_mfa
    unused,      \* the codes in mfa_recovery_codes that can still be used
    step,        \* where a call stands
    stored,      \* codes a ConfirmEnrollment has stored
    passcode,    \* what a Disable brings: of a secret, a code, or neither
    overlap      \* history: a Disable ran beside a ConfirmEnrollment

mfaVars == <<secret, unused, step, stored, passcode, overlap>>

Ended == {"idle", "done", "failed"}
Active(calls) == {c \in calls : step[c] \notin Ended}

MfaInit ==
    /\ secret = NoSecret /\ unused = {} /\ overlap = FALSE
    /\ step = [c \in Confirmer \cup Disabler |-> "idle"]
    /\ stored = [c \in Confirmer |-> 0]
    /\ passcode = [d \in Disabler |-> NoSecret]

Go(c, label) == step' = [step EXCEPT ![c] = label]

\* The passcode is good for the secret the request brings along.
Confirm(c) ==
    /\ step[c] = "idle" /\ Go(c, "secret")
    /\ overlap' = (overlap \/ Active(Disabler) # {})
    /\ UNCHANGED <<secret, unused, stored, passcode>>

\* The row is inserted or overwritten; the codes of an earlier enrollment stay.
StoreSecret(c) ==
    /\ step[c] = "secret"
    /\ \/ secret' = c /\ Go(c, "codes")
       \/ Go(c, "failed") /\ UNCHANGED secret
    /\ UNCHANGED <<unused, stored, passcode, overlap>>

StoreCode(c) ==
    /\ step[c] = "codes"
    /\ \/ /\ stored' = [stored EXCEPT ![c] = @ + 1]
          /\ unused' = unused \cup {<<c, stored[c] + 1>>}
          /\ Go(c, IF stored[c] + 1 = Codes THEN "done" ELSE "codes")
       \/ Go(c, "failed") /\ UNCHANGED <<unused, stored>>
    /\ UNCHANGED <<secret, passcode, overlap>>

\* Disable brings what its caller has: a passcode of a confirmed secret, a code
\* that was handed out, or something else.
Disable(d) ==
    /\ step[d] = "idle" /\ Go(d, "verify")
    /\ passcode' \in {[passcode EXCEPT ![d] = p] :
                         p \in {c \in Confirmer : step[c] # "idle"}
                               \cup {e \in Code : step[e[1]] = "done"} \cup {NoSecret}}
    /\ overlap' = (overlap \/ Active(Confirmer) # {})
    /\ UNCHANGED <<secret, unused, stored>>

\* Verify reads the secret, and takes the passcode for a code if it does not fit.
Verify(d) ==
    /\ step[d] = "verify"
    /\ \/ secret # NoSecret /\ passcode[d] = secret /\ Go(d, "deleteCodes")
       \/ secret \notin {NoSecret, passcode[d]} /\ Go(d, "consume")
       \/ Go(d, "failed")
    /\ UNCHANGED <<secret, unused, stored, passcode, overlap>>

\* Mutant: the code is accepted whether or not it was used.
ConsumeUsed(d) ==
    /\ step[d] = "consume"
    /\ Go(d, IF passcode[d] \in Code THEN "deleteCodes" ELSE "failed")
    /\ unused' = unused \ {passcode[d]}
    /\ UNCHANGED <<secret, stored, passcode, overlap>>

\* consumeRecoveryCode: one UPDATE that marks an unused code.
ConsumeRecoveryCode(d) ==
    /\ step[d] = "consume"
    /\ \/ passcode[d] \in unused /\ Go(d, "deleteCodes")
       \/ Go(d, "failed")
    /\ unused' = IF step'[d] = "deleteCodes" THEN unused \ {passcode[d]} ELSE unused
    /\ UNCHANGED <<secret, stored, passcode, overlap>>

\* Mutant: the row goes before the codes, and then the codes cannot be deleted.
DeleteRowFirst(d) ==
    /\ step[d] = "deleteCodes"
    /\ secret' = NoSecret /\ Go(d, "failed")
    /\ UNCHANGED <<unused, stored, passcode, overlap>>

DeleteCodes(d) ==
    /\ step[d] = "deleteCodes"
    /\ \/ unused' = {} /\ Go(d, "deleteRow")
       \/ Go(d, "failed") /\ UNCHANGED unused
    /\ UNCHANGED <<secret, stored, passcode, overlap>>

DeleteRow(d) ==
    /\ step[d] = "deleteRow"
    /\ \/ secret' = NoSecret /\ Go(d, "done")
       \/ Go(d, "failed") /\ UNCHANGED secret
    /\ UNCHANGED <<unused, stored, passcode, overlap>>

MfaNext ==
    \/ \E c \in Confirmer : Confirm(c) \/ StoreSecret(c) \/ StoreCode(c)
    \/ \E d \in Disabler : \/ Disable(d) \/ Verify(d) \/ ConsumeRecoveryCode(d)
                           \/ DeleteCodes(d) \/ DeleteRow(d)
-----------------------------------------------------------------------------
MfaTypeOK ==
    /\ secret \in Confirmer \cup {NoSecret} /\ unused \subseteq Code
    /\ step \in [Confirmer \cup Disabler ->
                    Ended \cup {"secret", "codes", "verify", "consume",
                                "deleteCodes", "deleteRow"}]
    /\ stored \in [Confirmer -> 0 .. Codes]
    /\ passcode \in [Disabler -> Confirmer \cup Code \cup {NoSecret}]
    /\ overlap \in BOOLEAN

\* A recovery code opens one door once: of the calls that bring it one at most
\* gets past Verify, however they interleave.
CodeAcceptedOnce ==
    \A d, e \in Disabler :
        /\ d # e /\ passcode[d] = passcode[e] /\ passcode[d] \in Code
        /\ step[d] \in {"deleteCodes", "deleteRow", "done"}
        => step[e] \notin {"deleteCodes", "deleteRow", "done"}

\* Without an enrollment there is no code left that a later one would accept,
\* whichever statement fails, unless enrolling and disabling overlapped.
OrphanCodesNeedOverlap ==
    secret = NoSecret /\ unused # {} => overlap
=============================================================================
