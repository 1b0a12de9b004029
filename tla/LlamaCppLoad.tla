---------------------------- MODULE LlamaCppLoad ----------------------------
(***************************************************************************)
(* Loads of models of the backend llama_cpp, as far as flash attention     *)
(* goes (_build_llama and _build_llama_with_auto_flash_attn of             *)
(* app/engine/llama_cpp.py).  The binding knows "on" and "off" only; for   *)
(* "auto" the code gives the constant that stands for "off", which all     *)
(* models share, the value of "auto" while the constructor runs.  The      *)
(* router loads different models in different threads and holds no lock    *)
(* while it builds them.                                                   *)
(***************************************************************************)
CONSTANT Loads     \* loads of different models

VARIABLES
    mode,          \* flash_attn_mode of each load
    at,            \* where each load stands
    disabled,      \* LLAMA_FLASH_ATTN_TYPE_DISABLED, in the namespaces that have it
    original,      \* originals, the local of a load with "auto"
    lock,          \* who holds _LLAMA_CPP_FLASH_ATTN_MODE_LOCK
    got            \* how each model was loaded in the end

vars == <<mode, at, disabled, original, lock, got>>

Modes == {"on", "off", "auto"}
Values == {"ENABLED", "DISABLED", "AUTO", "none"}
Nobody == "nobody"

TypeOK ==
    /\ mode \in [Loads -> Modes]
    /\ at \in [Loads -> {"begin", "lock", "patch", "construct", "restore", "done"}]
    /\ disabled \in {"DISABLED", "AUTO"}
    /\ original \in [Loads -> Values]
    /\ lock \in Loads \cup {Nobody}
    /\ got \in [Loads -> Values]

Init ==
    /\ mode \in [Loads -> Modes]
    /\ at = [l \in Loads |-> "begin"]
    /\ disabled = "DISABLED"
    /\ original = [l \in Loads |-> "none"]
    /\ lock = Nobody
    /\ got = [l \in Loads |-> "none"]

Goto(l, step) == at' = [at EXCEPT ![l] = step]

BuildLlama(l) ==
    /\ at[l] = "begin"
    /\ mode[l] # "auto"
    /\ Goto(l, "construct")
    /\ UNCHANGED <<mode, disabled, original, lock, got>>

\* The constant is read before the lock is taken.
ReadOriginals(l) ==
    /\ at[l] = "begin"
    /\ mode[l] = "auto"
    /\ original' = [original EXCEPT ![l] = disabled]
    /\ Goto(l, "lock")
    /\ UNCHANGED <<mode, disabled, lock, got>>

Acquire(l) ==
    /\ at[l] = "lock"
    /\ lock = Nobody
    /\ lock' = l
    /\ Goto(l, "patch")
    /\ UNCHANGED <<mode, disabled, original, got>>

Patch(l) ==
    /\ at[l] = "patch"
    /\ disabled' = "AUTO"
    /\ Goto(l, "construct")
    /\ UNCHANGED <<mode, original, lock, got>>

AfterConstruct(l) == Goto(l, IF mode[l] = "auto" THEN "restore" ELSE "done")

\* The constructor looks the constant up unless flash_attn is True.
Construct(l) ==
    /\ at[l] = "construct"
    /\ got' = [got EXCEPT ![l] = IF mode[l] = "on" THEN "ENABLED" ELSE disabled]
    /\ AfterConstruct(l)
    /\ UNCHANGED <<mode, disabled, original, lock>>

ConstructFails(l) ==
    /\ at[l] = "construct"
    /\ AfterConstruct(l)
    /\ UNCHANGED <<mode, disabled, original, lock, got>>

\* The finally, and the end of the with.
Restore(l) ==
    /\ at[l] = "restore"
    /\ disabled' = original[l]
    /\ lock' = Nobody
    /\ Goto(l, "done")
    /\ UNCHANGED <<mode, original, got>>

Next ==
    \E l \in Loads :
        \/ BuildLlama(l) \/ ReadOriginals(l) \/ Acquire(l) \/ Patch(l)
        \/ Construct(l) \/ ConstructFails(l) \/ Restore(l)

Spec == Init /\ [][Next]_vars

-----------------------------------------------------------------------------
(* "set the underlying enum to AUTO for this constructor call only"        *)
(* (app/engine/llama_cpp.py:509): when no load with "auto" is under way    *)
(* the constant has its own value again.  It need not: see the README.     *)
AutoForThisCallOnly == lock = Nobody => disabled = "DISABLED"
=============================================================================
