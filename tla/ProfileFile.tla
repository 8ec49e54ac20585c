----------------------------- MODULE ProfileFile -----------------------------
(***************************************************************************)
(* What is in profile.json, and what opens it (security/crypto.rs,         *)
(* security/storage.rs, security/device_protection.rs, and the operations  *)
(* of security/auth.rs that read or replace it).  The vault key is wrapped *)
(* up to three times: for the master password, for the recovery key, and   *)
(* for the PIN of one device.                                              *)
(*                                                                         *)
(* Cryptography is perfect: a wrapper gives up its key to the secret and   *)
(* the purpose (the associated data) it was made with, on any salt.  Each  *)
(* operation is one step; Auth looks into failures and counters instead.   *)
(* The running instances of the program share the file, and each remembers *)
(* the profile it has read.  Between runs the file may be changed from     *)
(* outside or carried to another device.                                   *)
(***************************************************************************)
EXTENDS Naturals, FiniteSets

CONSTANTS Instances,
          Passwords, Pins,
          Devices, Protecting,  (* those whose system protects data, Windows *)
          Costs,                (* KDF costs that a profile may name         *)
          NoFile, Damaged, NoWrapper,
          MaxKeys, MaxRotations, MaxAlterations   (* bounds *)

production == [memory_kib |-> 65536, iterations |-> 3, parallelism |-> 4]

VARIABLES file,          (* profile.json                                     *)
          device,        (* where the data directory is                      *)
          data,          (* the key the stores are encrypted with, 0: none   *)
          status, memory, held,   (* per instance: AuthState                 *)
          keys, rotations,        (* vault keys and recovery keys generated  *)
          alterations             (* changes made from outside               *)

instances == <<status, memory, held>>
generated == <<keys, rotations>>
vars == <<file, device, data, instances, generated, alterations>>

RecoveryKeys == 1 .. MaxRotations

\* A recovery key may be typed where a password is asked for, and be chosen as one.
Texts == Passwords \cup RecoveryKeys

Wrappers == [params : Costs, purpose : {"profile", "recovery"}, secret : Texts,
             key : 1 .. MaxKeys, whole : BOOLEAN]
PinWrappers == [params : Costs, version : 1 .. 2, device : Devices, pin : Pins,
                key : 1 .. MaxKeys, whole : BOOLEAN]
StoredProfiles == [format_version : 1 .. 3, wrapped_key : Wrappers,
                   recovery_wrapped_key : Wrappers \cup {NoWrapper},
                   pin_wrapped_key : PinWrappers \cup {NoWrapper}]

ProfileFileAssumption ==
    /\ Protecting \subseteq Devices
    /\ Costs \subseteq [memory_kib : Nat, iterations : Nat, parallelism : Nat]
    /\ production \in Costs
    /\ MaxKeys \in Nat \ {0} /\ MaxRotations \in Nat /\ MaxAlterations \in Nat
    /\ NoFile # Damaged /\ NoFile \notin StoredProfiles /\ Damaged \notin StoredProfiles
    /\ NoWrapper \notin Wrappers \cup PinWrappers

---------------------------------------------------------------------------
(* Deriving, wrapping and unwrapping.                                      *)

validate_production(p) ==
    /\ p.memory_kib >= 65536 /\ p.memory_kib <= 131072
    /\ p.iterations \in 3 .. 6
    /\ p.parallelism \in 1 .. 4
    /\ p.memory_kib * p.iterations <= 393216

\* New wrappers always use the current costs, a fresh salt and a fresh nonce.
Wrap(secret, vault_key, purpose) ==
    [params |-> production, purpose |-> purpose, secret |-> secret,
     key |-> vault_key, whole |-> TRUE]

wrap_existing_vault_key(password, vault_key) == Wrap(password, vault_key, "profile")
wrap_recovery_vault_key(recovery_key, vault_key) == Wrap(recovery_key, vault_key, "recovery")

wrap_pin_vault_key(pin, here, vault_key) ==
    [params |-> production, version |-> 1, device |-> here, pin |-> pin,
     key |-> vault_key, whole |-> TRUE]

Unwrapped(vault_key) == [is |-> "Key", key |-> vault_key]
Refused(error) == [is |-> error, key |-> 0]

unwrap_vault_key_with_aad(secret, wrapped, purpose) ==
    IF ~wrapped.whole THEN Refused("InvalidMetadata")
    ELSE IF ~validate_production(wrapped.params) THEN Refused("InvalidParameters")
    ELSE IF <<wrapped.secret, wrapped.purpose>> # <<secret, purpose>>
         THEN Refused("AuthenticationFailed")
    ELSE Unwrapped(wrapped.key)

unwrap_vault_key(password, wrapped) == unwrap_vault_key_with_aad(password, wrapped, "profile")

\* What the user can type: nobody knows a recovery key before it is generated.
Typed == Passwords \cup 1 .. rotations

\* What the user types as a recovery key: hyphens, blanks and case do not matter,
\* anything else does.
TypedRecoveryKeys == [text : Typed, form : {"as shown", "reformatted", "altered"}]

Normalizes(typed) == typed.text \in RecoveryKeys /\ typed.form # "altered"

unwrap_recovery_vault_key(typed, wrapped) ==
    IF Normalizes(typed) THEN unwrap_vault_key_with_aad(typed.text, wrapped, "recovery")
    ELSE Refused("InvalidRecoveryKey")

\* What DPAPI has protected can be unprotected by the same user of the same device.
Unprotect(wrapped) == device \in Protecting /\ wrapped.device = device

unwrap_pin_vault_key(pin, wrapped) ==
    IF wrapped.version # 1 \/ ~wrapped.whole THEN Refused("InvalidMetadata")
    ELSE IF ~validate_production(wrapped.params) THEN Refused("InvalidParameters")
    ELSE IF wrapped.pin # pin THEN Refused("AuthenticationFailed")
    ELSE Unwrapped(wrapped.key)

---------------------------------------------------------------------------
(* The profile and its store.                                              *)

with_recovery(wrapped, recovery) ==
    [format_version |-> 2, wrapped_key |-> wrapped,
     recovery_wrapped_key |-> recovery, pin_wrapped_key |-> NoWrapper]

replacing_master_wrapper(p, wrapped) == [p EXCEPT !.wrapped_key = wrapped]

replacing_recovery_wrapper(p, wrapped) ==
    [p EXCEPT !.format_version = 2, !.recovery_wrapped_key = wrapped]

replacing_pin_wrapper(p, wrapped) == [p EXCEPT !.pin_wrapped_key = wrapped]

valid_wrapped_key(wrapped) == wrapped.whole /\ validate_production(wrapped.params)

valid_pin_wrapped_key(wrapped) == wrapped.version = 1 /\ valid_wrapped_key(wrapped)

validate(p) ==
    /\ \/ p.format_version = 1 /\ p.recovery_wrapped_key = NoWrapper
       \/ p.format_version = 2
    /\ valid_wrapped_key(p.wrapped_key)
    /\ p.recovery_wrapped_key # NoWrapper => valid_wrapped_key(p.recovery_wrapped_key)
    /\ p.pin_wrapped_key # NoWrapper => valid_pin_wrapped_key(p.pin_wrapped_key)

\* ProfileStore::create never takes the place of a file.
Creatable == file = NoFile

(* Mutant: the session goes on with the profile it has read.               *)
ReplaceUnremembered(i, replacement) ==
    IF validate(replacement) THEN file' = replacement /\ UNCHANGED memory
    ELSE UNCHANGED <<file, memory>>

\* ProfileStore::replace does, with what passes validation.
Replace(i, replacement) ==
    IF validate(replacement)
    THEN file' = replacement /\ memory' = [memory EXCEPT ![i] = replacement]
    ELSE UNCHANGED <<file, memory>>

---------------------------------------------------------------------------
(* The operations of one instance.                                         *)

Becomes(i, state, profile, vault_key) ==
    /\ status' = [status EXCEPT ![i] = state]
    /\ memory' = [memory EXCEPT ![i] = profile]
    /\ held' = [held EXCEPT ![i] = vault_key]

load(i) ==
    /\ status[i] = "Stopped"
    /\ IF file = NoFile THEN Becomes(i, "SetupRequired", NoFile, 0)
       ELSE IF file # Damaged /\ validate(file) THEN Becomes(i, "Locked", file, 0)
       ELSE Becomes(i, "DataError", NoFile, 0)
    /\ UNCHANGED <<file, device, data, generated, alterations>>

Stop(i) ==
    /\ status[i] # "Stopped"
    /\ Becomes(i, "Stopped", NoFile, 0)
    /\ UNCHANGED <<file, device, data, generated, alterations>>

create_master_password(i, password) ==
    /\ status[i] = "SetupRequired"
    /\ keys < MaxKeys /\ rotations < MaxRotations
    /\ keys' = keys + 1
    /\ rotations' = rotations + 1
    /\ LET created == with_recovery(wrap_existing_vault_key(password, keys'),
                                    wrap_recovery_vault_key(rotations', keys'))
       IN  IF Creatable
           THEN file' = created /\ Becomes(i, "Unlocked", created, keys')
           ELSE Becomes(i, "DataError", NoFile, 0) /\ UNCHANGED file
    /\ UNCHANGED <<device, data, alterations>>

\* What an attempt to unlock makes of what unwrapping gave.
Attempt(i, opened, damage) ==
    /\ IF opened.is = "Key" THEN Becomes(i, "Unlocked", memory[i], opened.key)
       ELSE IF opened.is \in damage THEN Becomes(i, "DataError", NoFile, 0)
       ELSE UNCHANGED instances
    /\ UNCHANGED <<file, device, data, generated, alterations>>

unlock(i, password) ==
    /\ status[i] = "Locked"
    /\ Attempt(i, unwrap_vault_key(password, memory[i].wrapped_key),
               {"InvalidMetadata", "InvalidParameters"})

\* Whatever is wrong with it, the PIN is what is refused.
unlock_with_pin(i, pin) ==
    /\ status[i] = "Locked"
    /\ memory[i].pin_wrapped_key # NoWrapper
    /\ Attempt(i, IF Unprotect(memory[i].pin_wrapped_key)
                  THEN unwrap_pin_vault_key(pin, memory[i].pin_wrapped_key)
                  ELSE Refused("DeviceProtection"), {})

\* Recovery keeps the vault key, and drops the PIN.
recover_master_password(i, typed, password) ==
    /\ status[i] = "Locked"
    /\ memory[i].recovery_wrapped_key # NoWrapper
    /\ LET opened == unwrap_recovery_vault_key(typed, memory[i].recovery_wrapped_key)
           replacement == with_recovery(wrap_existing_vault_key(password, opened.key),
                                        wrap_recovery_vault_key(rotations + 1, opened.key))
       IN  IF opened.is = "Key"
           THEN /\ rotations < MaxRotations
                /\ rotations' = rotations + 1
                /\ file' = replacement
                /\ Becomes(i, "Unlocked", replacement, opened.key)
                /\ UNCHANGED <<device, data, keys, alterations>>
           ELSE Attempt(i, opened, {"InvalidMetadata", "InvalidParameters"})

\* The current password is checked against the remembered profile.
Verified(i, password) ==
    /\ status[i] = "Unlocked"
    /\ unwrap_vault_key(password, memory[i].wrapped_key) = Unwrapped(held[i])

regenerate_recovery_key(i, password) ==
    /\ Verified(i, password)
    /\ rotations < MaxRotations
    /\ rotations' = rotations + 1
    /\ Replace(i, replacing_recovery_wrapper(memory[i],
                                             wrap_recovery_vault_key(rotations', held[i])))
    /\ UNCHANGED <<device, data, status, held, keys, alterations>>

change_master_password(i, password, new) ==
    /\ Verified(i, password)
    /\ Replace(i, replacing_master_wrapper(memory[i], wrap_existing_vault_key(new, held[i])))
    /\ UNCHANGED <<device, data, status, held, generated, alterations>>

\* setup_pin and change_pin: a device that protects nothing takes no PIN.
replace_pin(i, password, pin) ==
    /\ Verified(i, password)
    /\ device \in Protecting
    /\ Replace(i, replacing_pin_wrapper(memory[i], wrap_pin_vault_key(pin, device, held[i])))
    /\ UNCHANGED <<device, data, status, held, generated, alterations>>

remove_pin(i, password) ==
    /\ Verified(i, password)
    /\ memory[i].pin_wrapped_key # NoWrapper
    /\ Replace(i, replacing_pin_wrapper(memory[i], NoWrapper))
    /\ UNCHANGED <<device, data, status, held, generated, alterations>>

lock(i) ==
    /\ status[i] = "Unlocked"
    /\ Becomes(i, "Locked", memory[i], 0)
    /\ UNCHANGED <<file, device, data, generated, alterations>>

\* A store that does not open with the key is an error, and left alone.
WriteStore(i) ==
    /\ status[i] = "Unlocked"
    /\ data = 0
    /\ data' = held[i]
    /\ UNCHANGED <<file, device, instances, generated, alterations>>

(* Mutant: the stores are left behind.                                     *)
reset_profile_only(i) ==
    /\ status[i] \in {"Locked", "Unlocked", "DataError"}
    /\ file' = NoFile
    /\ Becomes(i, "SetupRequired", NoFile, 0)
    /\ UNCHANGED <<device, data, generated, alterations>>

\* ProfileStore::reset, and finish_reset after it.
reset(i) ==
    /\ status[i] \in {"Locked", "Unlocked", "DataError"}
    /\ file' = NoFile
    /\ data' = 0
    /\ Becomes(i, "SetupRequired", NoFile, 0)
    /\ UNCHANGED <<device, generated, alterations>>

---------------------------------------------------------------------------
(* From outside, while no instance runs.                                   *)

MoveTo(other) ==
    /\ \A i \in Instances : status[i] = "Stopped"
    /\ other # device
    /\ device' = other
    /\ UNCHANGED <<file, data, instances, generated, alterations>>

Slots(p) == {s \in {"wrapped_key", "recovery_wrapped_key", "pin_wrapped_key"} : p[s] # NoWrapper}

\* One thing about a profile is not as this program wrote it.
Alterations(p) ==
    {Damaged} \cup {[p EXCEPT !.format_version = v] : v \in 1 .. 3}
    \cup {[p EXCEPT ![s].params = c] : s \in Slots(p), c \in Costs}
    \cup {[p EXCEPT ![s].whole = FALSE] : s \in Slots(p)}
    \cup {[p EXCEPT ![s] = NoWrapper] : s \in Slots(p) \ {"wrapped_key"}}
    \cup {[p EXCEPT !.wrapped_key = p.recovery_wrapped_key,
                    !.recovery_wrapped_key = p.wrapped_key]
            : s \in Slots(p) \cap {"recovery_wrapped_key"}}

Alter ==
    /\ \A i \in Instances : status[i] = "Stopped"
    /\ file \notin {NoFile, Damaged}
    /\ alterations < MaxAlterations
    /\ alterations' = alterations + 1
    /\ file' \in Alterations(file) \ {file}
    /\ UNCHANGED <<device, data, instances, generated>>

---------------------------------------------------------------------------
\* A first start, or a start over a profile from before there were recovery keys.
Init ==
    /\ \/ file = NoFile /\ keys = 0
       \/ /\ \E p \in Passwords :
                file = [format_version |-> 1, wrapped_key |-> wrap_existing_vault_key(p, 1),
                        recovery_wrapped_key |-> NoWrapper, pin_wrapped_key |-> NoWrapper]
          /\ keys = 1
    /\ device \in Devices
    /\ data = 0
    /\ status = [i \in Instances |-> "Stopped"]
    /\ memory = [i \in Instances |-> NoFile]
    /\ held = [i \in Instances |-> 0]
    /\ rotations = 0
    /\ alterations = 0

Operate(i) ==
    \/ load(i) \/ Stop(i) \/ lock(i) \/ WriteStore(i) \/ reset(i)
    \/ \E password \in Typed :
          \/ create_master_password(i, password)
          \/ unlock(i, password)
          \/ regenerate_recovery_key(i, password)
          \/ remove_pin(i, password)
          \/ \E new \in Typed : change_master_password(i, password, new)
          \/ \E pin \in Pins : replace_pin(i, password, pin)
          \/ \E typed \in TypedRecoveryKeys : recover_master_password(i, typed, password)
    \/ \E pin \in Pins : unlock_with_pin(i, pin)

Next ==
    \/ \E i \in Instances : Operate(i)
    \/ \E other \in Devices : MoveTo(other)
    \/ Alter

Spec == Init /\ [][Next]_vars

---------------------------------------------------------------------------
(* Properties.                                                             *)

TypeOK ==
    /\ file \in StoredProfiles \cup {NoFile, Damaged}
    /\ device \in Devices
    /\ data \in 0 .. MaxKeys
    /\ status \in [Instances -> {"Stopped", "SetupRequired", "Locked", "Unlocked", "DataError"}]
    /\ memory \in [Instances -> StoredProfiles \cup {NoFile}]
    /\ held \in [Instances -> 0 .. MaxKeys]
    /\ keys \in 0 .. MaxKeys
    /\ rotations \in 0 .. MaxRotations
    /\ alterations \in 0 .. MaxAlterations

\* What the program may want to make of a profile it has open.
Replacements(i) ==
    {replacing_recovery_wrapper(memory[i], wrap_recovery_vault_key(1, held[i])),
     replacing_pin_wrapper(memory[i], NoWrapper)}
    \cup {replacing_master_wrapper(memory[i], wrap_existing_vault_key(p, held[i])) : p \in Passwords}
    \cup {replacing_pin_wrapper(memory[i], wrap_pin_vault_key(p, device, held[i])) : p \in Pins}

(* Whatever its age and costs, a profile that could be loaded can be given *)
(* a new password, recovery key or PIN: no change is turned down by the    *)
(* validation of the store.                                                *)
ChangesAreAccepted ==
    \A i \in Instances : status[i] = "Unlocked" => \A p \in Replacements(i) : validate(p)

(* A profile that was found sound stays usable: nothing that is typed, and *)
(* no other device, makes the program call it damaged.                     *)
StaysSound ==
    \A i \in Instances :
       status[i] \in {"Locked", "Unlocked"} => status'[i] # "DataError"

(* No profile makes the program derive a key at more than twice the memory *)
(* or the work of its own wrappers (argon2-policy.md).                     *)
Work(p) == p.memory_kib * p.iterations
DerivationIsAffordable ==
    \A i \in Instances : memory[i] # NoFile =>
        \A s \in Slots(memory[i]) :
            LET p == memory[i][s].params
            IN  p.memory_kib <= 2 * production.memory_kib /\ Work(p) <= 2 * Work(production)

(* The key of an open session is the one that every wrapper of the profile *)
(* holds and that the stores are encrypted with, whatever was changed,     *)
(* rotated or recovered in between.                                        *)
OneVaultKey ==
    \A i \in Instances : status[i] = "Unlocked" =>
        /\ data \in {0, held[i]}
        /\ \A s \in Slots(memory[i]) : memory[i][s].key = held[i]

(* A wrapper opens only what it was made for, where it was made for it.    *)
(* A session opens by a wrapper made for a password, or by a PIN of this    *)
(* very device, or, when the profile changes on the way, by a wrapper made *)
(* for a recovery key; wherever the file was carried, and even when its    *)
(* wrappers were exchanged ("Domains cannot be interchanged",              *)
(* offline-recovery.md:36).                                                *)
OpensItsOwnSlot ==
    \A i \in Instances :
       status[i] = "Locked" /\ status'[i] = "Unlocked" =>
          IF memory'[i] # memory[i] THEN memory[i].recovery_wrapped_key.purpose = "recovery"
          ELSE \/ memory[i].wrapped_key.purpose = "profile"
               \/ /\ memory[i].pin_wrapped_key # NoWrapper
                  /\ memory[i].pin_wrapped_key.device = device

(* An instance that waits to be set up leaves a profile alone that another *)
(* one has made in the meantime.                                           *)
OverwritesNothing ==
    \A i \in Instances :
       status[i] = "SetupRequired" /\ status'[i] \in {"Unlocked", "DataError"} /\ file # NoFile
          => file' = file

RecoveryKeyOf(p) == IF p \in {NoFile, Damaged} \/ p.recovery_wrapped_key = NoWrapper THEN 0
                    ELSE p.recovery_wrapped_key.secret

(* "Old key invalidated; new key works" (offline-recovery.md:40): the      *)
(* recovery key that opens the profile is never one that was replaced.     *)
StaysReplaced ==
    \/ alterations' # alterations
    \/ file' = NoFile
    \/ {RecoveryKeyOf(file), RecoveryKeyOf(file')} \cap Passwords # {}
    \/ RecoveryKeyOf(file') >= RecoveryKeyOf(file)
ReplacedKeysStayInvalid == [][StaysReplaced]_vars
=============================================================================
