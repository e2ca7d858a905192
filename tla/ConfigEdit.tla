------------------------------ MODULE ConfigEdit ------------------------------
(***************************************************************************)
(* Guarded edits of stateguard.yaml (workspace/config_edit.py): a writer   *)
(* reads the file, prepares it again with its own sections replaced,       *)
(* compares the file with what it read, and renames the prepared file over *)
(* it.  Other commands, the control server and the merchant's editor write *)
(* the same file.  A writer that takes no further step has been killed:    *)
(* what it leaves is a temporary file that nobody reads.                   *)
(***************************************************************************)
CONSTANTS
  Writers,
  Unset         \* a section that is not in the file

VARIABLES
  config,       \* the file: from its sections to their values
  edit          \* for each writer, its edit
configVars == <<config, edit>>

Sections == {"customer_value", "fulfilment", "late_authorisation", "ai"}
NoEdit == [pc |-> "none"]

Owned(e) == DOMAIN e.update

(* Only customer-value confirmations carry history, which is not written.   *)
Written(cf) ==
  [s \in Sections |-> IF s = "customer_value" /\ cf[s] # Unset
                      THEN [symbol |-> cf[s].symbol, fingerprint |-> cf[s].fingerprint, basis |-> cf[s].basis]
                      ELSE cf[s]]

ConfigInit(cf) ==
  /\ config = cf
  /\ edit = [w \in Writers |-> NoEdit]

(* raced is history: the file was written after the comparison.             *)
StartEdit(w, update) ==
  /\ edit[w] = NoEdit
  /\ edit' = [edit EXCEPT ![w] = [pc |-> "read", update |-> update, original |-> Unset, raced |-> FALSE]]
  /\ UNCHANGED config

ReadOriginal(w) ==
  /\ edit[w].pc = "read"
  /\ edit' = [edit EXCEPT ![w].pc = "compare", ![w].original = config]
  /\ UNCHANGED config

(* Mutant of CompareOriginal: the file is not read again.                   *)
CompareNothing(w) ==
  /\ edit[w].pc = "compare"
  /\ edit' = [edit EXCEPT ![w].pc = "replace"]
  /\ UNCHANGED config

CompareOriginal(w) ==
  /\ edit[w].pc = "compare"
  /\ edit' = [edit EXCEPT ![w].pc = IF Written(config) = Written(edit[w].original)
                                    THEN "replace" ELSE "refused"]
  /\ UNCHANGED config

Raced(ws) ==
  [w \in Writers |-> IF w \in ws /\ edit[w].pc = "replace" THEN [edit[w] EXCEPT !.raced = TRUE] ELSE edit[w]]

Replace(w) ==
  /\ edit[w].pc = "replace"
  /\ config' = [s \in Sections |-> IF s \in Owned(edit[w]) THEN edit[w].update[s] ELSE edit[w].original[s]]
  /\ edit' = [Raced(Writers \ {w}) EXCEPT ![w].pc = "written"]

(* The merchant's editor: a section is changed by hand.                     *)
EditByHand(s, value) ==
  /\ config[s] # value
  /\ config' = [config EXCEPT ![s] = value]
  /\ edit' = Raced(Writers)

EditStep(w) == ReadOriginal(w) \/ CompareOriginal(w) \/ Replace(w)
=============================================================================
