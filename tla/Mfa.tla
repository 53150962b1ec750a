-------------------------------- MODULE Mfa ---------------------------------
(* The second factor (auth/mfa): the login in two steps, the setup and the *)
(* disabling of TOTP for one user, over the repository in memory, whose    *)
(* operations are critical sections, or in redis, whose operations are     *)
(* several commands of which each may fail and between which other         *)
(* clients run and keys expire. Secrets and codes are abstract: Otp gives  *)
(* the code of a secret in a period, and two secrets may share a code.     *)
EXTENDS Integers

CONSTANTS MfaStores, MfaClients, Secrets, Codes, Otp(_, _), Window,
          KeyLife,           \* the redis expiration, in periods
          LastPeriod,        \* bound of the clock
          MaxMfaErrors       \* bound of the commands that fail

ASSUME MfaAssumption ==
    /\ MfaStores \subseteq {"memory", "redis"} /\ Secrets \subseteq Nat \ {0}
    /\ KeyLife \in Nat \ {0} /\ Window \in Nat /\ LastPeriod \in Nat /\ MaxMfaErrors \in Nat

VARIABLES mfaStore, forceMFA,
          known,             \* memory: the user has an entry
          settings,          \* the user's TOTP settings: the secret and the other fields
          listed,            \* redis: the user's list of types has TOTP
          settingsUntil, listedUntil, period, mfaErrors, mfaClient,
          enrolled           \* history: what the last write left, if nothing disturbed it

mfaVars == <<mfaStore, forceMFA, known, settings, listed, settingsUntil, listedUntil, period,
             mfaErrors, mfaClient, enrolled>>
mfaKeys == <<known, settings, listed, settingsUntil, listedUntil>>

NoSecret == 0
Off == 0
Unsure == -1
NoCode == -1
Never == LastPeriod + KeyLife + 1
Absent == [secret |-> NoSecret, rest |-> FALSE]
Writing == {"set", "hset", "expire", "type", "expireTypes", "disable", "del", "hdel"}
Client == [pc: {"idle", "list", "code", "in"} \cup Writing, secret: Secrets \cup {NoSecret},
           left: SUBSET {"secret", "rest"}, alone: BOOLEAN, sure: BOOLEAN, proved: BOOLEAN]
IdleClient == [pc |-> "idle", secret |-> NoSecret, left |-> {}, alone |-> FALSE, sure |-> FALSE,
               proved |-> FALSE]

NewMFAAuthenticator(s, force) ==
    /\ mfaStore = s /\ forceMFA = force
    /\ known = FALSE /\ settings = Absent /\ listed = FALSE
    /\ settingsUntil = Never /\ listedUntil = Never
    /\ period = 0 /\ mfaErrors = 0
    /\ mfaClient = [c \in MfaClients |-> IdleClient]
    /\ enrolled = Off

ClientAt(c, pc) == mfaClient[c].pc = pc
ClientGoes(c, pc) == mfaClient' = [mfaClient EXCEPT ![c].pc = pc]
ClientEnds(c) == mfaClient' = [mfaClient EXCEPT ![c] = IdleClient]
MayFail == mfaStore = "redis" /\ mfaErrors < MaxMfaErrors

-----------------------------------------------------------------------------
(* What the repositories answer, and which codes a secret accepts.         *)
MemoryGet ==
    IF ~known THEN "ErrUserNotFound" ELSE IF settings = Absent THEN "ErrMFANotEnabled" ELSE "nil"
RedisGet == IF settings = Absent THEN "ErrMFANotEnabled" ELSE "nil"
GetUserMFA == IF mfaStore = "memory" THEN MemoryGet ELSE RedisGet

MemoryList == known /\ settings # Absent
RedisList == listed
ListUserMFA == IF mfaStore = "memory" THEN MemoryList ELSE RedisList

NewTOTP(secret) == IF secret = NoSecret THEN Secrets ELSE {secret}
ValidateCodeWithWindow(secret, code) ==
    \E i \in -Window .. Window : period + i >= 0 /\ Otp(secret, period + i) = code

Enabled == GetUserMFA = "nil" /\ settings.secret # NoSecret
VerifyChallenge(code) ==
    Enabled /\ \E s \in NewTOTP(settings.secret) : ValidateCodeWithWindow(s, code)

-----------------------------------------------------------------------------
(* The login. A credential that the base authenticator refuses ends it at  *)
(* once. sure says that an undisturbed enrolment ended before the login    *)
(* began and that no write has begun since.                                *)
BeginLogin(c) ==
    /\ ClientAt(c, "idle")
    /\ mfaClient' = [mfaClient EXCEPT ![c] = [IdleClient EXCEPT !.pc = "list", !.sure = enrolled \in Secrets]]
    /\ UNCHANGED <<mfaStore, forceMFA, mfaKeys, period, mfaErrors, enrolled>>

ToleratedAny(err) == TRUE
Tolerated(err) == err \in {"nil", "ErrUserNotFound"}
ListError == IF mfaStore = "memory" /\ ~known THEN "ErrUserNotFound" ELSE "nil"

(* With RequireMFA Authenticate returns ErrMFARequired; the user who calls *)
(* PreAuthenticate goes on with a code.                                    *)
PreAuthenticate(c) ==
    /\ ClientAt(c, "list")
    /\ \E err \in {ListError} \cup IF MayFail THEN {"redis"} ELSE {} :
        /\ mfaErrors' = IF err = "redis" THEN mfaErrors + 1 ELSE mfaErrors
        /\ IF Tolerated(err)
           THEN ClientGoes(c, IF forceMFA \/ (err # "redis" /\ ListUserMFA) THEN "code" ELSE "in")
           ELSE ClientEnds(c)
    /\ UNCHANGED <<mfaStore, forceMFA, mfaKeys, period, enrolled>>

RequireMFA(c) ==
    /\ ClientAt(c, "code")
    /\ ClientEnds(c)
    /\ UNCHANGED <<mfaStore, forceMFA, mfaKeys, period, mfaErrors, enrolled>>

CompleteMFA(c, code) ==
    /\ ClientAt(c, "code")
    /\ IF VerifyChallenge(code)
       THEN mfaClient' = [mfaClient EXCEPT ![c].pc = "in", ![c].proved = TRUE]
       ELSE ClientEnds(c)
    /\ UNCHANGED <<mfaStore, forceMFA, mfaKeys, period, mfaErrors, enrolled>>

LoginOver(c) ==
    /\ ClientAt(c, "in")
    /\ ClientEnds(c)
    /\ UNCHANGED <<mfaStore, forceMFA, mfaKeys, period, mfaErrors, enrolled>>

-----------------------------------------------------------------------------
(* The writes. A write that begins ends what is known of the enrolment,    *)
(* and it is alone as long as no other begins and no key expires.          *)
BeginWrite(c, pc, secret) ==
    LET busy == \E d \in MfaClients : mfaClient[d].pc \in Writing
    IN  /\ mfaClient' = [d \in MfaClients |->
            IF d = c THEN [IdleClient EXCEPT !.pc = pc, !.secret = secret, !.left = {"secret", "rest"},
                                             !.alone = ~busy]
            ELSE [mfaClient[d] EXCEPT !.sure = FALSE, !.alone = FALSE]]
        /\ enrolled' = Unsure

EndWrite(c, result) ==
    /\ ClientEnds(c)
    /\ enrolled' = IF mfaClient[c].alone THEN result ELSE Unsure

SetAt == IF mfaStore = "memory" THEN "set" ELSE "hset"

(* Each call of Setup makes a secret, so the code that is to prove it must *)
(* be one of the secret made by the same call. Only a user the repository  *)
(* does not know, or one whose settings are replaced, gets so far.         *)
Setup(c, reset, code) ==
    /\ ClientAt(c, "idle")
    /\ Tolerated(GetUserMFA)
    /\ Enabled => reset
    /\ code # NoCode
    /\ \E s \in NewTOTP(NoSecret) : ValidateCodeWithWindow(s, code) /\ BeginWrite(c, SetAt, s)
    /\ UNCHANGED <<mfaStore, forceMFA, mfaKeys, period, mfaErrors>>

(* An application that stores a secret itself.                             *)
Enroll(c, s) ==
    /\ ClientAt(c, "idle")
    /\ BeginWrite(c, SetAt, s)
    /\ UNCHANGED <<mfaStore, forceMFA, mfaKeys, period, mfaErrors>>

DisableMFA(c) ==
    /\ ClientAt(c, "idle")
    /\ BeginWrite(c, IF mfaStore = "memory" THEN "disable" ELSE "del", NoSecret)
    /\ UNCHANGED <<mfaStore, forceMFA, mfaKeys, period, mfaErrors>>

MemorySet(c) ==
    /\ ClientAt(c, "set")
    /\ known' = TRUE
    /\ settings' = [secret |-> mfaClient[c].secret, rest |-> TRUE]
    /\ EndWrite(c, mfaClient[c].secret)
    /\ UNCHANGED <<mfaStore, forceMFA, listed, settingsUntil, listedUntil, period, mfaErrors>>

MemoryDisable(c) ==
    /\ ClientAt(c, "disable")
    /\ settings' = Absent
    /\ EndWrite(c, Off)
    /\ UNCHANGED <<mfaStore, forceMFA, known, listed, settingsUntil, listedUntil, period, mfaErrors>>

(* The fields in any order; a new key does not expire until Expire is sent.*)
HSet(c, field) ==
    /\ ClientAt(c, "hset") /\ field \in mfaClient[c].left
    /\ settings' = IF field = "secret" THEN [settings EXCEPT !.secret = mfaClient[c].secret]
                                       ELSE [settings EXCEPT !.rest = TRUE]
    /\ settingsUntil' = IF settings = Absent THEN Never ELSE settingsUntil
    /\ mfaClient' = [mfaClient EXCEPT ![c].left = @ \ {field},
                                      ![c].pc = IF mfaClient[c].left = {field} THEN "expire" ELSE "hset"]
    /\ UNCHANGED <<mfaStore, forceMFA, known, listed, listedUntil, period, mfaErrors, enrolled>>

ExpireSettings(c) ==
    /\ ClientAt(c, "expire")
    /\ settingsUntil' = IF settings = Absent THEN settingsUntil ELSE period + KeyLife
    /\ ClientGoes(c, "type")
    /\ UNCHANGED <<mfaStore, forceMFA, known, settings, listed, listedUntil, period, mfaErrors, enrolled>>

HSetType(c) ==
    /\ ClientAt(c, "type")
    /\ listed' = TRUE
    /\ listedUntil' = IF listed THEN listedUntil ELSE Never
    /\ ClientGoes(c, "expireTypes")
    /\ UNCHANGED <<mfaStore, forceMFA, known, settings, settingsUntil, period, mfaErrors, enrolled>>

ExpireTypes(c) ==
    /\ ClientAt(c, "expireTypes")
    /\ listedUntil' = IF listed THEN period + KeyLife ELSE listedUntil
    /\ EndWrite(c, mfaClient[c].secret)
    /\ UNCHANGED <<mfaStore, forceMFA, known, settings, listed, settingsUntil, period, mfaErrors>>

Del(c) ==
    /\ ClientAt(c, "del")
    /\ settings' = Absent /\ settingsUntil' = Never
    /\ ClientGoes(c, "hdel")
    /\ UNCHANGED <<mfaStore, forceMFA, known, listed, listedUntil, period, mfaErrors, enrolled>>

Unlisted == FALSE

HDel(c) ==
    /\ ClientAt(c, "hdel")
    /\ listed' = Unlisted /\ listedUntil' = Never
    /\ EndWrite(c, Off)
    /\ UNCHANGED <<mfaStore, forceMFA, known, settings, settingsUntil, period, mfaErrors>>

(* A command of a write fails: the write returns the error and leaves what *)
(* the commands before it did.                                             *)
WriteFails(c) ==
    /\ MayFail
    /\ mfaClient[c].pc \in Writing
    /\ mfaErrors' = mfaErrors + 1
    /\ ClientEnds(c)
    /\ UNCHANGED <<mfaStore, forceMFA, mfaKeys, period, enrolled>>

(* A period passes, and the keys whose time is up are gone.                *)
PeriodPasses ==
    LET gone(until) == until # Never /\ until <= period + 1
        lost == gone(settingsUntil) \/ gone(listedUntil)
    IN  /\ period < LastPeriod
        /\ period' = period + 1
        /\ settings' = IF gone(settingsUntil) THEN Absent ELSE settings
        /\ settingsUntil' = IF gone(settingsUntil) THEN Never ELSE settingsUntil
        /\ listed' = (listed /\ ~gone(listedUntil))
        /\ listedUntil' = IF gone(listedUntil) THEN Never ELSE listedUntil
        /\ enrolled' = IF lost THEN Unsure ELSE enrolled
        /\ mfaClient' = IF lost THEN [c \in MfaClients |->
                            [mfaClient[c] EXCEPT !.alone = FALSE, !.sure = FALSE]] ELSE mfaClient
        /\ UNCHANGED <<mfaStore, forceMFA, known, mfaErrors>>

MfaInit == \E s \in MfaStores, force \in BOOLEAN : NewMFAAuthenticator(s, force)

MfaNext ==
    \/ \E c \in MfaClients :
        \/ BeginLogin(c) \/ PreAuthenticate(c) \/ RequireMFA(c) \/ LoginOver(c)
        \/ \E code \in Codes : CompleteMFA(c, code)
        \/ \E reset \in BOOLEAN, code \in Codes \cup {NoCode} : Setup(c, reset, code)
        \/ \E s \in Secrets : Enroll(c, s)
        \/ \E field \in {"secret", "rest"} : HSet(c, field)
        \/ DisableMFA(c) \/ MemorySet(c) \/ MemoryDisable(c)
        \/ ExpireSettings(c) \/ HSetType(c) \/ ExpireTypes(c) \/ Del(c) \/ HDel(c) \/ WriteFails(c)
    \/ PeriodPasses

MfaSpec == MfaInit /\ [][MfaNext]_mfaVars

-----------------------------------------------------------------------------
(* Every variable has its type.                                            *)
MfaTypeOK ==
    /\ mfaStore \in MfaStores /\ forceMFA \in BOOLEAN /\ known \in BOOLEAN /\ listed \in BOOLEAN
    /\ settings \in [secret: Secrets \cup {NoSecret}, rest: BOOLEAN]
    /\ settingsUntil \in 1 .. Never /\ listedUntil \in 1 .. Never
    /\ period \in 0 .. LastPeriod /\ mfaErrors \in 0 .. MaxMfaErrors
    /\ mfaClient \in [MfaClients -> Client]
    /\ enrolled \in Secrets \cup {Off, Unsure}

(* The last write that succeeded and that no other write and no expiry     *)
(* disturbed holds, whatever failed writes left before it: after           *)
(* SetUserMFA the user has that secret and is asked for a code, after      *)
(* DisableUserMFA there are neither settings nor a listed type             *)
(* (authenticator.go, redis_repository.go).                                *)
EnrolmentHolds ==
    /\ enrolled \in Secrets => settings.secret = enrolled /\ ListUserMFA
    /\ enrolled = Off => settings = Absent /\ ~ListUserMFA

(* A login that begins after an undisturbed enrolment, and during which    *)
(* none is written or expires, never gets through without a code that was  *)
(* verified, also when redis fails to list the user's types                *)
(* (PreAuthenticate, CompleteMFA).                                         *)
EnrolledNeedsCode ==
    \A c \in MfaClients : ClientAt(c, "in") /\ mfaClient[c].sure => mfaClient[c].proved

(* The second factor in force is the one last written, and an enrolled     *)
(* user does not get in without it (SetUserMFA, DisableUserMFA,            *)
(* PreAuthenticate, CompleteMFA).                                          *)
SecondFactorHolds == MfaTypeOK /\ EnrolmentHolds /\ EnrolledNeedsCode
=============================================================================
