----------------------------- MODULE ParamStore -----------------------------
(***************************************************************************)
(* The stored parameters of the motor firmware: one record over two flash  *)
(* pages, saved by parameter_persistence.c and bsp/flash.c, and what       *)
(* Param_Download of foc_param.c makes of it at the next start, whatever   *)
(* the save was cut short by.  There is a single copy and no transaction:  *)
(* what protects a reader is the order of the writes, the magic word, the  *)
(* reverse byte and the CRC of each record at the end.                     *)
(*                                                                         *)
(* A save runs with interrupts masked and the outputs off (MotorMode says  *)
(* when), so only a power cut or a HAL error comes between its steps.      *)
(***************************************************************************)
EXTENDS Integers, Sequences, FiniteSets

CONSTANTS
    Tails,          \* the CRC'd records after the load profile, in order
    HostSections,   \* sections the host's commands change
    HostValues,     \* what they may set a section to
    MaxSaves        \* bound: saves that get as far as erasing

ASSUME StoreAssumption ==
    /\ Tails \in Seq({"filter", "speed_pi", "slew", "feedforward", "thermal"})
    /\ HostSections \subseteq {"ids", "gains", "ext", "load", "filter", "speed_pi",
                               "slew", "feedforward", "thermal"}
    /\ HostValues \cap {"none", "default", "unset", "partial", "bad", "void"} = {}
    /\ MaxSaves \in Nat

(* The record in the order of its addresses.  "ids" fills page 56: node,   *)
(* offsets, calibration flag, reverse, most of the table; "gains" is the   *)
(* table's end and the gains; "magic" is one double word.                  *)
Layout == <<"ids", "gains", "magic", "ext", "axis", "load">> \o Tails
Sections == {Layout[i] : i \in DOMAIN Layout}
TailSet == {Tails[i] : i \in DOMAIN Tails}
PageOf(s) == IF s = "ids" THEN 56 ELSE 57
Guarded == {"axis", "load"} \cup TailSet      \* carry a CRC of their own

VARIABLES
    flash,          \* each section: blank, torn, or whole with a value and its save
    ram,            \* each section's value in MotorControl and its like
    ok,             \* axis_profile_valid and load_profile_valid
    job,            \* flash_write_param: step, snapshot, last_save_result
    saves,          \* history: saves that erased something
    worn            \* history: a double word took a value it was not given

vars == <<flash, ram, ok, job, saves, worn>>

\* What a section may hold: a host's value, or one the firmware makes up:
\* "default", "unset" (RAM as cleared at start), "partial" (some of it default),
\* "bad" (a refused axis profile kept as it is), "void" (a load profile that
\* is written so that it will be refused).
Made == {"default", "unset", "partial", "bad", "void"}
Values == HostValues \cup Made
Blank == [state |-> "blank", value |-> "none", save |-> 0]
Torn  == [state |-> "torn", value |-> "none", save |-> 0]
Stored(v, k) == [state |-> "whole", value |-> v, save |-> k]
Whole(c) == c.state = "whole"
Cells == {Blank, Torn} \cup [state : {"whole"}, value : Values, save : 0 .. MaxSaves]

-----------------------------------------------------------------------------
(* Param_Download                                                          *)

\* A CRC'd record that is all zeros or erased is an old one, and accepted.
Accepted(c) == c = Blank \/ (Whole(c) /\ c.value \notin {"bad", "void"})

\* The magic word is there, and the reverse byte of page 56 is not erased.
Admitted(f) == Whole(f["magic"]) /\ f["ids"] # Blank

\* A section by itself.
Loaded(s, c) ==
    CASE c = Blank                -> "default"
      [] c = Torn /\ s = "axis" -> "bad"
      [] c = Torn               -> "partial"
      [] OTHER                  -> c.value

\* The tail records are read one after the other, up to the first refused.
Reached(f, i) ==
    /\ Accepted(f["axis"]) /\ Accepted(f["load"])
    /\ \A j \in 1 .. i : Accepted(f[Tails[j]])

\* Without the shunt at the head of "ext" the currents among the gains are not
\* believed (current_sense_profile_changed).
Rescaled(f) == Whole(f["gains"]) /\ f["ext"] = Blank

Download(f) ==
    IF ~Admitted(f)
    THEN [ram |-> [s \in Sections |-> "default"], ok |-> [axis |-> TRUE, load |-> TRUE]]
    ELSE [ram |-> [s \in Sections |->
                     CASE s = "load" -> IF Accepted(f[s]) THEN Loaded(s, f[s]) ELSE "void"
                       [] s \in TailSet ->
                            IF \E i \in DOMAIN Tails : Tails[i] = s /\ Reached(f, i)
                            THEN Loaded(s, f[s]) ELSE "unset"
                       [] s = "gains" /\ Rescaled(f) -> "partial"
                       [] OTHER -> Loaded(s, f[s])],
          ok |-> [axis |-> Accepted(f["axis"]) /\
                           (Accepted(f["load"]) => Reached(f, Len(Tails))),
                  load |-> Accepted(f["load"])]]

-----------------------------------------------------------------------------
NoSnapshot == [s \in Sections |-> "unset"]
NoJob == [step |-> "idle", at |-> 0, snap |-> NoSnapshot, result |-> "NOT_ATTEMPTED"]

\* As it leaves the factory, or after a save that went well.
StoreInit ==
    /\ flash \in {[s \in Sections |-> Blank],
                  [s \in Sections |-> Stored("default", 0)]}
    /\ ram = Download(flash).ram /\ ok = Download(flash).ok
    /\ job = NoJob
    /\ saves = 0
    /\ worn = FALSE

\* A command changes what a section is made of; a load profile is then valid.
HostSets ==
    /\ job.step = "idle"
    /\ \E s \in HostSections \cap Sections, v \in HostValues :
          /\ ram' = [ram EXCEPT ![s] = v]
          /\ ok' = [ok EXCEPT !.load = @ \/ s = "load"]
    /\ UNCHANGED <<flash, job, saves, worn>>

\* Default_Param: everything as if the record were not there.
HostDefaults ==
    /\ job.step = "idle"
    /\ ram' = [s \in Sections |-> "default"]
    /\ ok' = [axis |-> TRUE, load |-> TRUE]
    /\ UNCHANGED <<flash, job, saves, worn>>

-----------------------------------------------------------------------------
(* flash_write_param                                                       *)

\* Variant: a load profile that was refused is stored as an empty one.
UploadEmptyLoad(r, valid) ==
    [r EXCEPT !["load"] = IF valid.load THEN @ ELSE "default", !["magic"] = "default"]

\* Param_Upload, and the magic word; a refused load profile must stay refused.
Upload(r, valid) ==
    [r EXCEPT !["load"] = IF valid.load THEN @ ELSE "void", !["magic"] = "default"]

Holds(f, snap) == \A s \in Sections : Whole(f[s]) /\ f[s].value = snap[s]

\* An unchanged record is not written; else flash is unlocked, or is not.
SaveStart ==
    /\ job.step = "idle"
    /\ LET snap == Upload(ram, ok) IN
         job' \in IF Holds(flash, snap)
                  THEN {[NoJob EXCEPT !.snap = snap, !.result = "UNCHANGED"]}
                  ELSE {[NoJob EXCEPT !.snap = snap, !.step = "erase", !.at = 56],
                        [NoJob EXCEPT !.snap = snap, !.result = "UNLOCK_FAILED"]}
    /\ saves' = IF job'.step = "erase" THEN saves + 1 ELSE saves
    /\ saves' <= MaxSaves
    /\ UNCHANGED <<flash, ram, ok, worn>>

Ends(result) == [job EXCEPT !.step = "idle", !.at = 0, !.result = result]

ErasedPage(f, p) == [s \in Sections |-> IF PageOf(s) = p THEN Blank ELSE f[s]]

\* Variant: the last page is worked out one short.
SaveEraseShort ==
    /\ job.step = "erase"
    /\ flash' = ErasedPage(flash, 56)
    /\ job' = [job EXCEPT !.step = "program", !.at = 1]
    /\ UNCHANGED <<ram, ok, saves, worn>>

\* One page after the other; an erase that fails has erased the page or not.
SaveErase ==
    /\ job.step = "erase"
    /\ \/ /\ flash' = ErasedPage(flash, job.at)
          /\ job' = IF job.at = 56 THEN [job EXCEPT !.at = 57]
                    ELSE [job EXCEPT !.step = "program", !.at = 1]
       \/ /\ flash' \in {flash, ErasedPage(flash, job.at)}
          /\ job' = Ends("ERASE_FAILED")
    /\ UNCHANGED <<ram, ok, saves, worn>>

Current == Layout[job.at]
Writes(c) == flash' = [flash EXCEPT ![Current] = c]

\* A section is begun: its first double words are in flash.  The magic word
\* is a double word of its own and is never seen half written.
SaveBegin ==
    /\ job.step = "program"
    /\ flash[Current] = Blank /\ Current # "magic"
    /\ Writes(Torn)
    /\ job' = [job EXCEPT !.step = "rest"]
    /\ UNCHANGED <<ram, ok, saves, worn>>

\* The section is finished, and the next one is due, or the verification.
SaveFinish ==
    /\ \/ job.step = "rest"
       \/ job.step = "program" /\ Current = "magic" /\ flash[Current] = Blank
    /\ \/ Writes(Stored(job.snap[Current], saves)) /\ UNCHANGED worn
       \/ Current # "magic" /\ Writes(Torn) /\ worn' = TRUE
    /\ job' = IF job.at = Len(Layout) THEN [job EXCEPT !.step = "verify", !.at = 0]
              ELSE [job EXCEPT !.step = "program", !.at = @ + 1]
    /\ UNCHANGED <<ram, ok, saves>>

\* HAL_FLASH_Program refuses a double word, as it does one that is not blank,
\* or reports an error for one that it has written.
SaveProgramFails ==
    /\ job.step \in {"program", "rest"}
    /\ \/ UNCHANGED flash
       \/ flash[Current] = Blank /\ Writes(IF Current # "magic" THEN Torn
                                           ELSE Stored(job.snap[Current], saves))
    /\ job' = Ends("PROGRAM_FAILED")
    /\ UNCHANGED <<ram, ok, saves, worn>>

\* Variant: what was programmed is taken for what is there.
SaveVerifyTrusting ==
    /\ job.step = "verify"
    /\ job' \in {Ends("WRITTEN"), Ends("LOCK_FAILED")}
    /\ UNCHANGED <<flash, ram, ok, saves, worn>>

SaveVerify ==
    /\ job.step = "verify"
    /\ job' \in IF Holds(flash, job.snap) THEN {Ends("WRITTEN"), Ends("LOCK_FAILED")}
                ELSE {Ends("VERIFY_FAILED")}
    /\ UNCHANGED <<flash, ram, ok, saves, worn>>

\* A reset at any moment: flash_read_param makes RAM of what flash holds.
Boot ==
    /\ ram' = Download(flash).ram
    /\ ok' = Download(flash).ok
    /\ job' = NoJob
    /\ UNCHANGED <<flash, saves, worn>>

Save == SaveStart \/ SaveErase \/ SaveBegin \/ SaveFinish \/ SaveProgramFails \/ SaveVerify

StoreNext == HostSets \/ HostDefaults \/ Save \/ Boot

StoreSpec == StoreInit /\ [][StoreNext]_vars

-----------------------------------------------------------------------------

\* BUSY and OUTPUTS_ACTIVE end a call before it touches anything (MotorMode).
Results == {"NOT_ATTEMPTED", "UNCHANGED", "UNLOCK_FAILED", "ERASE_FAILED",
            "PROGRAM_FAILED", "VERIFY_FAILED", "WRITTEN", "LOCK_FAILED"}

\* Values in range.
StoreTypeOK ==
    /\ flash \in [Sections -> Cells]
    /\ ram \in [Sections -> Values]
    /\ ok \in [axis : BOOLEAN, load : BOOLEAN]
    /\ job \in [step : {"idle", "erase", "program", "rest", "verify"}, at : Nat,
                snap : [Sections -> Values], result : Results]
    /\ saves \in 0 .. MaxSaves /\ worn \in BOOLEAN

(* Whenever the power goes, the next start either takes the defaults or    *)
(* finds the node, the calibration and the gains whole and from one save;  *)
(* no section of another save is beside them.                              *)
AdmittedIsWhole ==
    Admitted(flash) /\ ~worn =>
        /\ \A s \in {"ids", "gains"} : Whole(flash[s])
        /\ \A s \in Sections : Whole(flash[s]) => flash[s].save = flash["magic"].save

(* A save reported as written or unchanged is in flash, whole, until the   *)
(* next one.                                                               *)
ReportedIsStored ==
    job.result \in {"WRITTEN", "UNCHANGED"} => Holds(flash, job.snap)

(* A load or axis profile refused at start is not made acceptable by a     *)
(* save that went well: the next start refuses it again                    *)
(* (foc_param.c:395).                                                      *)
RefusedStaysRefused ==
    [][Boot /\ job.result = "WRITTEN" =>
         /\ ~ok.load => ~ok'.load
         /\ ram["axis"] = "bad" => ~ok'.axis]_vars
=============================================================================
