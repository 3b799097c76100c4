-------------------------- MODULE ParamStore_proofs --------------------------
(***************************************************************************)
(* What a save promises, for any records at the end, any host and any      *)
(* number of saves: TLC sees two records and two saves.                    *)
(***************************************************************************)
EXTENDS ParamStore, TLAPS

(* The order of the writes.  Pages are erased from 56 on, so between the   *)
(* two erases the reverse byte is gone; what is programmed afterwards is   *)
(* of this save alone, and the magic word comes after the node, the        *)
(* calibration and the gains.                                              *)
InOrder ==
    /\ job.step = "erase" =>
          job.at \in {56, 57} /\ (job.at = 57 => flash["ids"] = Blank)
    /\ job.step \in {"program", "rest"} =>
          /\ job.at \in 1 .. Len(Layout)
          /\ \A s \in Sections : Whole(flash[s]) => flash[s].save = saves
          /\ job.at <= 2 => ~Whole(flash["magic"])
          /\ ~worn => /\ job.at > 1 => Whole(flash["ids"])
                      /\ job.at > 2 => Whole(flash["gains"])

\* What a save keeps of the verdicts at start, as long as it is under way or
\* the last thing that was reported.
KeepsVerdict ==
    job.step # "idle" \/ job.result = "WRITTEN" =>
        /\ ~ok.load => job.snap["load"] = "void"
        /\ ram["axis"] = "bad" => job.snap["axis"] = "bad"

StoreInv ==
    /\ StoreTypeOK
    /\ InOrder
    /\ AdmittedIsWhole
    /\ ReportedIsStored
    /\ job.step # "idle" => job.result = "NOT_ATTEMPTED"
    /\ KeepsVerdict

-----------------------------------------------------------------------------
(* The layout.                                                             *)

\* The first six sections, and that the others are none of the first three.
LEMMA LayoutFacts ==
    /\ Len(Layout) \in Nat /\ Len(Layout) >= 6
    /\ DOMAIN Layout = 1 .. Len(Layout)
    /\ Layout[1] = "ids" /\ Layout[2] = "gains" /\ Layout[3] = "magic"
    /\ \A i \in 4 .. Len(Layout) : Layout[i] \notin {"ids", "gains", "magic"}
    /\ {"ids", "gains", "magic", "ext", "axis", "load"} \subseteq Sections
    /\ \A i \in 1 .. Len(Layout) : Layout[i] \in Sections
<1> DEFINE H == <<"ids", "gains", "magic", "ext", "axis", "load">>
           T == {"filter", "speed_pi", "slew", "feedforward", "thermal"}
<1>1. Tails \in Seq(T)
  BY StoreAssumption
<1>2. Len(Tails) \in Nat /\ \A i \in 1 .. Len(Tails) : Tails[i] \in T
  BY <1>1
<1>3. /\ Len(H \o Tails) = 6 + Len(Tails)
      /\ DOMAIN (H \o Tails) = 1 .. 6 + Len(Tails)
  BY <1>1, <1>2
<1>4. /\ (H \o Tails)[1] = "ids" /\ (H \o Tails)[2] = "gains"
      /\ (H \o Tails)[3] = "magic" /\ (H \o Tails)[4] = "ext"
      /\ (H \o Tails)[5] = "axis" /\ (H \o Tails)[6] = "load"
  BY <1>1, <1>2
<1>5. \A i \in 7 .. 6 + Len(Tails) : (H \o Tails)[i] = Tails[i - 6]
  BY <1>1, <1>2
<1>6. \A i \in 7 .. 6 + Len(Tails) : (H \o Tails)[i] \in T
  <2>1. SUFFICES ASSUME NEW i \in 7 .. 6 + Len(Tails) PROVE Tails[i - 6] \in T
    BY <1>5
  <2>2. i - 6 \in 1 .. Len(Tails)
    BY <1>2
  <2>3. QED
    BY <1>2, <2>2
<1>7. Layout = H \o Tails
  BY DEF Layout
<1> HIDE DEF H
<1>8. \A i \in 4 .. Len(Layout) : Layout[i] \notin {"ids", "gains", "magic"}
  <2>1. TAKE i \in 4 .. Len(Layout)
  <2>2. i = 4 \/ i = 5 \/ i = 6 \/ i \in 7 .. 6 + Len(Tails)
    BY <1>2, <1>3, <1>7
  <2>3. QED
    BY <1>4, <1>6, <1>7, <2>2
<1>9. {1, 2, 3, 4, 5, 6} \subseteq DOMAIN Layout
  BY <1>2, <1>3, <1>7
<1>10. {"ids", "gains", "magic", "ext", "axis", "load"} \subseteq Sections
  BY <1>4, <1>7, <1>9 DEF Sections
<1>11. Len(Layout) \in Nat /\ Len(Layout) >= 6 /\ DOMAIN Layout = 1 .. Len(Layout)
  BY <1>2, <1>3, <1>7
<1>12. \A i \in 1 .. Len(Layout) : Layout[i] \in Sections
  BY <1>11 DEF Sections
<1>13. QED
  BY <1>4, <1>7, <1>8, <1>10, <1>11, <1>12

-----------------------------------------------------------------------------
(* What a section may hold, and what a start makes of it.                  *)

LEMMA CellFacts ==
    ASSUME NEW c \in Cells
    PROVE  /\ ~Whole(c) => c = Blank \/ c = Torn
           /\ Whole(c) => c.value \in Values /\ c.save \in 0 .. MaxSaves /\ c # Blank /\ c # Torn
  BY DEF Cells, Blank, Torn, Whole

LEMMA StoredFacts ==
    ASSUME NEW v \in Values, NEW k \in 0 .. MaxSaves
    PROVE  /\ Stored(v, k) \in Cells /\ Whole(Stored(v, k))
           /\ Stored(v, k).save = k /\ Stored(v, k).value = v
  BY DEF Cells, Stored, Whole

LEMMA BlankFacts ==
    Blank \in Cells /\ Torn \in Cells /\ ~Whole(Blank) /\ ~Whole(Torn) /\ Blank # Torn
  BY DEF Cells, Blank, Torn, Whole

LEMMA LoadedType ==
    ASSUME NEW s, NEW c \in Cells
    PROVE  Loaded(s, c) \in Values
<1>1. CASE Whole(c)
  <2>1. c.value \in Values /\ c # Blank /\ c # Torn
    BY <1>1, CellFacts
  <2>2. QED
    BY <2>1 DEF Loaded
<1>2. CASE ~Whole(c)
  <2>1. c = Blank \/ c = Torn
    BY <1>2, CellFacts
  <2>2. QED
    BY <2>1, BlankFacts DEF Loaded, Values, Made
<1>3. QED
  BY <1>1, <1>2

LEMMA DownloadType ==
    ASSUME NEW f \in [Sections -> Cells]
    PROVE  /\ Download(f).ram \in [Sections -> Values]
           /\ Download(f).ok \in [axis : BOOLEAN, load : BOOLEAN]
<1>1. {"default", "unset", "void", "partial"} \subseteq Values
  BY DEF Values, Made
<1>2. \A s \in Sections : Loaded(s, f[s]) \in Values
  BY LoadedType
<1>3. CASE ~Admitted(f)
  BY <1>1, <1>3 DEF Download
<1>4. CASE Admitted(f)
  <2> DEFINE R == [s \in Sections |->
                     CASE s = "load" -> IF Accepted(f[s]) THEN Loaded(s, f[s]) ELSE "void"
                       [] s \in TailSet ->
                            IF \E i \in DOMAIN Tails : Tails[i] = s /\ Reached(f, i)
                            THEN Loaded(s, f[s]) ELSE "unset"
                       [] s = "gains" /\ Rescaled(f) -> "partial"
                       [] OTHER -> Loaded(s, f[s])]
             A == Accepted(f["axis"]) /\
                           (Accepted(f["load"]) => Reached(f, Len(Tails)))
             L == Accepted(f["load"])
  <2>1. Download(f) = [ram |-> R, ok |-> [axis |-> A, load |-> L]]
    BY <1>4, Zenon DEF Download
  <2>2. R \in [Sections -> Values]
    BY <1>1, <1>2
  <2>3. A \in BOOLEAN /\ L \in BOOLEAN
    BY Zenon DEF Accepted, Reached
  <2> HIDE DEF R, A, L
  <2>4. QED
    BY <2>1, <2>2, <2>3
<1>5. QED
  BY <1>3, <1>4

\* A record that holds a refused profile is refused again.
LEMMA RefusedAgain ==
    ASSUME NEW f \in [Sections -> Cells], NEW snap \in [Sections -> Values], Holds(f, snap)
    PROVE  /\ snap["load"] = "void" => ~Download(f).ok.load
           /\ snap["axis"] = "bad" => ~Download(f).ok.axis
<1>1. /\ \A s \in Sections : Whole(f[s]) /\ f[s].value = snap[s] /\ f[s] # Blank
      /\ {"ids", "magic", "axis", "load"} \subseteq Sections
  BY CellFacts, LayoutFacts DEF Holds
<1>2. Admitted(f)
  BY <1>1 DEF Admitted
<1>3. /\ Download(f).ok.load = Accepted(f["load"])
      /\ Download(f).ok.axis = (Accepted(f["axis"]) /\
                                (Accepted(f["load"]) => Reached(f, Len(Tails))))
  BY <1>2, Zenon DEF Download
<1>4. \A s \in {"axis", "load"} : snap[s] \in {"bad", "void"} => ~Accepted(f[s])
  BY <1>1 DEF Accepted
<1>5. QED
  BY <1>3, <1>4, Zenon
-----------------------------------------------------------------------------
(* While a record is being written.                                        *)

\* Flash f after the first i - 1 sections, w telling of a bad double word.
Clean(f, w, i) ==
    /\ \A s \in Sections : Whole(f[s]) => f[s].save = saves
    /\ i <= 2 => ~Whole(f["magic"])
    /\ ~w => /\ i > 1 => Whole(f["ids"])
             /\ i > 2 => Whole(f["gains"])

LEMMA CleanIsWhole ==
    ASSUME NEW f \in [Sections -> Cells], NEW w \in BOOLEAN, NEW i \in Nat, Clean(f, w, i),
           Admitted(f), ~w
    PROVE  /\ \A s \in {"ids", "gains"} : Whole(f[s])
           /\ \A s \in Sections : Whole(f[s]) => f[s].save = f["magic"].save
  BY LayoutFacts DEF Clean, Admitted

\* A section begun where nothing was is not a whole one lost.
LEMMA CleanBegin ==
    ASSUME NEW f \in [Sections -> Cells], NEW w \in BOOLEAN, NEW i \in Nat, Clean(f, w, i),
           NEW c \in Sections, f[c] = Blank
    PROVE  Clean([f EXCEPT ![c] = Torn], w, i)
  BY BlankFacts, LayoutFacts DEF Clean

LEMMA CleanFinish ==
    ASSUME NEW f \in [Sections -> Cells], NEW w \in BOOLEAN, NEW i \in 1 .. Len(Layout),
           Clean(f, w, i), NEW v \in Values, saves \in 0 .. MaxSaves
    PROVE  Clean([f EXCEPT ![Layout[i]] = Stored(v, saves)], w, i + 1)
<1> DEFINE c == Layout[i]
           g == [f EXCEPT ![c] = Stored(v, saves)]
           k == saves
<1>1. k \in 0 .. MaxSaves /\ c \in Sections
  BY LayoutFacts
<1>2. Whole(Stored(v, k)) /\ Stored(v, k).save = k
  BY <1>1, StoredFacts
<1>3. \A s \in Sections : g[s] = IF s = c THEN Stored(v, k) ELSE f[s]
  OBVIOUS
<1>4. \A s \in Sections : Whole(g[s]) => g[s].save = saves
  BY <1>2, <1>3 DEF Clean
<1>5. i + 1 <= 2 => ~Whole(g["magic"])
  BY <1>3, LayoutFacts DEF Clean
<1>6. ~w => (i + 1 > 1 => Whole(g["ids"]))
  BY <1>2, <1>3, LayoutFacts DEF Clean
<1>7. ~w => (i + 1 > 2 => Whole(g["gains"]))
  BY <1>2, <1>3, LayoutFacts DEF Clean
<1>8. QED
  BY <1>4, <1>5, <1>6, <1>7 DEF Clean

\* The magic word is one double word, and the third section.
LEMMA CleanMagic ==
    ASSUME NEW f \in [Sections -> Cells], NEW w \in BOOLEAN, NEW i \in 1 .. Len(Layout),
           Clean(f, w, i), Layout[i] = "magic", NEW v \in Values, saves \in 0 .. MaxSaves
    PROVE  Clean([f EXCEPT !["magic"] = Stored(v, saves)], w, i)
<1> DEFINE k == saves
           g == [f EXCEPT !["magic"] = Stored(v, k)]
<1>1. Whole(Stored(v, k)) /\ Stored(v, k).save = k
  BY StoredFacts
<1>2. i > 2
  BY LayoutFacts
<1>3. \A s \in Sections : g[s] = IF s = "magic" THEN Stored(v, k) ELSE f[s]
  OBVIOUS
<1>4. QED
  BY <1>1, <1>2, <1>3, LayoutFacts DEF Clean

\* An erased page.
LEMMA EraseFacts ==
    ASSUME NEW f \in [Sections -> Cells], NEW p \in {56, 57}, p = 57 => f["ids"] = Blank
    PROVE  /\ ErasedPage(f, p) \in [Sections -> Cells]
           /\ ErasedPage(f, p)["ids"] = Blank
           /\ p = 57 => \A s \in Sections : ErasedPage(f, p)[s] = Blank
<1>1. \A s \in Sections : ErasedPage(f, p)[s] = IF PageOf(s) = p THEN Blank ELSE f[s]
  BY DEF ErasedPage
<1>2. \A s \in Sections : PageOf(s) = IF s = "ids" THEN 56 ELSE 57
  BY DEF PageOf
<1>3. ErasedPage(f, p) \in [Sections -> Cells]
  BY BlankFacts DEF ErasedPage
<1>4. QED
  BY <1>1, <1>2, <1>3, LayoutFacts

-----------------------------------------------------------------------------
(* One lemma for each kind of step.                                        *)

LEMMA StoreInitially == StoreInit => StoreInv
<1> SUFFICES ASSUME StoreInit PROVE StoreInv
  OBVIOUS
<1>1. /\ {"default", "unset"} \subseteq Values /\ 0 \in 0 .. MaxSaves
  BY StoreAssumption DEF Values, Made
<1>2. Stored("default", 0) \in Cells /\ Whole(Stored("default", 0))
      /\ Stored("default", 0).save = 0
  BY <1>1, StoredFacts
<1>3. flash = [s \in Sections |-> Blank] \/ flash = [s \in Sections |-> Stored("default", 0)]
  BY DEF StoreInit
<1>4. flash \in [Sections -> Cells]
  BY <1>2, <1>3, BlankFacts
<1>5. ram \in [Sections -> Values] /\ ok \in [axis : BOOLEAN, load : BOOLEAN]
  BY <1>4, DownloadType DEF StoreInit
<1>6. /\ job \in [step : {"idle", "erase", "program", "rest", "verify"}, at : Nat,
                  snap : [Sections -> Values], result : Results]
      /\ job.step = "idle" /\ job.result = "NOT_ATTEMPTED"
  BY <1>1 DEF StoreInit, NoJob, NoSnapshot, Results
<1>7. StoreTypeOK
  BY <1>1, <1>4, <1>5, <1>6, Zenon DEF StoreTypeOK, StoreInit
<1>8. AdmittedIsWhole
  BY <1>2, <1>3, BlankFacts, LayoutFacts DEF AdmittedIsWhole, Admitted
<1>9. QED
  BY <1>6, <1>7, <1>8 DEF StoreInv, InOrder, ReportedIsStored, KeepsVerdict

\* What the host sets does not show in a save that is over.
LEMMA HostKeeps == StoreInv /\ (HostSets \/ HostDefaults) => StoreInv'
<1> SUFFICES ASSUME StoreInv, HostSets \/ HostDefaults PROVE StoreInv'
  OBVIOUS
<1>1. /\ UNCHANGED <<flash, job, saves, worn>> /\ job.step = "idle"
  BY DEF HostSets, HostDefaults
<1>2. /\ ram' \in [Sections -> Values] /\ ok' \in [axis : BOOLEAN, load : BOOLEAN]
      /\ ~ok'.load => ~ok.load
      /\ ram'["axis"] = "bad" => ram["axis"] = "bad"
  <2>1. CASE HostSets
    <3>1. PICK s \in HostSections \cap Sections :
             \E v \in HostValues : /\ ram' = [ram EXCEPT ![s] = v]
                                   /\ ok' = [ok EXCEPT !.load = @ \/ s = "load"]
      BY <2>1 DEF HostSets
    <3>2. PICK v \in HostValues : /\ ram' = [ram EXCEPT ![s] = v]
                                  /\ ok' = [ok EXCEPT !.load = @ \/ s = "load"]
      BY <3>1
    <3>3. v \in Values /\ v # "bad"
      BY StoreAssumption DEF Values
    <3>4. ram' \in [Sections -> Values] /\ (ram'["axis"] = "bad" => ram["axis"] = "bad")
      BY <3>2, <3>3, LayoutFacts DEF StoreInv, StoreTypeOK
    <3>5. (ok.load \/ s = "load") \in BOOLEAN /\ ok \in [axis : BOOLEAN, load : BOOLEAN]
      BY Zenon DEF StoreInv, StoreTypeOK
    <3>6. ok' \in [axis : BOOLEAN, load : BOOLEAN] /\ ok'.load = (ok.load \/ s = "load")
      BY <3>2, <3>5
    <3>7. QED
      BY <3>4, <3>6, Zenon
  <2>2. CASE HostDefaults
    <3>1. "default" \in Values
      BY DEF Values, Made
    <3>2. QED
      BY <2>2, <3>1, LayoutFacts DEF HostDefaults
  <2>3. QED
    BY <2>1, <2>2
<1>3. StoreTypeOK'
  BY <1>1, <1>2, Zenon DEF StoreInv, StoreTypeOK
<1>4. AdmittedIsWhole' /\ ReportedIsStored' /\ InOrder'
  BY <1>1, Zenon DEF StoreInv, AdmittedIsWhole, ReportedIsStored, InOrder, Admitted, Holds
<1>5. KeepsVerdict' /\ (job'.step # "idle" => job'.result = "NOT_ATTEMPTED")
  BY <1>1, <1>2 DEF StoreInv, KeepsVerdict
<1>6. QED
  BY <1>3, <1>4, <1>5 DEF StoreInv
\* A snapshot of what a start has refused holds it refused.
LEMMA UploadFacts ==
    ASSUME StoreTypeOK
    PROVE  LET snap == Upload(ram, ok) IN
           /\ snap \in [Sections -> Values]
           /\ ~ok.load => snap["load"] = "void"
           /\ ram["axis"] = "bad" => snap["axis"] = "bad"
<1>1. {"default", "void"} \subseteq Values /\ ram \in [Sections -> Values]
  BY DEF Values, Made, StoreTypeOK
<1>2. QED
  BY <1>1, LayoutFacts DEF Upload

LEMMA StartKeeps == StoreInv /\ SaveStart => StoreInv'
<1> SUFFICES ASSUME StoreInv, SaveStart PROVE StoreInv'
  OBVIOUS
<1> DEFINE snap == Upload(ram, ok)
<1>1. /\ UNCHANGED <<flash, ram, ok, worn>> /\ saves' \in 0 .. MaxSaves
      /\ saves' \in {saves, saves + 1}
  BY StoreAssumption DEF SaveStart, StoreInv, StoreTypeOK
<1>2. /\ snap \in [Sections -> Values]
      /\ ~ok.load => snap["load"] = "void"
      /\ ram["axis"] = "bad" => snap["axis"] = "bad"
  BY UploadFacts DEF StoreInv
<1>3. \/ Holds(flash, snap) /\ job' = [NoJob EXCEPT !.snap = snap, !.result = "UNCHANGED"]
      \/ job' = [NoJob EXCEPT !.snap = snap, !.step = "erase", !.at = 56]
      \/ job' = [NoJob EXCEPT !.snap = snap, !.result = "UNLOCK_FAILED"]
  BY Zenon DEF SaveStart
<1> HIDE DEF snap
<1>4. /\ job' \in [step : {"idle", "erase", "program", "rest", "verify"}, at : Nat,
                   snap : [Sections -> Values], result : Results]
      /\ job'.snap = snap
      /\ job'.step \in {"idle", "erase"}
      /\ job'.step = "erase" => job'.at = 56 /\ job'.result = "NOT_ATTEMPTED"
      /\ job'.result # "WRITTEN"
      /\ job'.result = "UNCHANGED" => Holds(flash, snap)
  <2>1. \/ Holds(flash, snap) /\ job' = [step |-> "idle", at |-> 0, snap |-> snap,
                                           result |-> "UNCHANGED"]
        \/ job' = [step |-> "erase", at |-> 56, snap |-> snap, result |-> "NOT_ATTEMPTED"]
        \/ job' = [step |-> "idle", at |-> 0, snap |-> snap, result |-> "UNLOCK_FAILED"]
    BY <1>3 DEF NoJob
  <2>2. QED
    BY <1>2, <2>1 DEF Results
<1>5. StoreTypeOK'
  BY <1>1, <1>4, Zenon DEF StoreInv, StoreTypeOK
<1>6. AdmittedIsWhole'
  BY <1>1, Zenon DEF StoreInv, AdmittedIsWhole, Admitted
<1>7. ReportedIsStored'
  BY <1>1, <1>4 DEF ReportedIsStored, Holds
<1>8. InOrder'
  BY <1>4 DEF InOrder
<1>9. KeepsVerdict'
  BY <1>1, <1>2, <1>4 DEF KeepsVerdict
<1>10. QED
  BY <1>4, <1>5, <1>6, <1>7, <1>8, <1>9 DEF StoreInv

\* The fields of a save that has ended.
LEMMA EndsFacts ==
    ASSUME StoreTypeOK, NEW r \in Results
    PROVE  /\ Ends(r) \in [step : {"idle", "erase", "program", "rest", "verify"}, at : Nat,
                           snap : [Sections -> Values], result : Results]
           /\ Ends(r).step = "idle" /\ Ends(r).result = r /\ Ends(r).snap = job.snap
  BY DEF StoreTypeOK, Ends

LEMMA EraseKeeps == StoreInv /\ SaveErase => StoreInv'
<1> SUFFICES ASSUME StoreInv, SaveErase PROVE StoreInv'
  OBVIOUS
<1> DEFINE e == ErasedPage(flash, job.at)
<1>1. /\ UNCHANGED <<ram, ok, saves, worn>> /\ job.step = "erase"
      /\ job.result = "NOT_ATTEMPTED" /\ job.at \in {56, 57}
      /\ StoreTypeOK /\ flash \in [Sections -> Cells]
  BY DEF SaveErase, StoreInv, InOrder, StoreTypeOK
<1>2. /\ e \in [Sections -> Cells] /\ e["ids"] = Blank
      /\ job.at = 57 => flash["ids"] = Blank /\ \A s \in Sections : e[s] = Blank
  <2>1. job.at = 57 => flash["ids"] = Blank
    BY <1>1 DEF StoreInv, InOrder
  <2>2. QED
    BY <1>1, <2>1, EraseFacts
<1> HIDE DEF e
<1>3. AdmittedIsWhole' <=> (Admitted(flash') /\ ~worn =>
        /\ \A s \in {"ids", "gains"} : Whole(flash'[s])
        /\ \A s \in Sections : Whole(flash'[s]) => flash'[s].save = flash'["magic"].save)
  BY <1>1, Zenon DEF AdmittedIsWhole, Admitted
<1>4. flash' = e => ~Admitted(flash')
  BY <1>2 DEF Admitted
<1>5. flash' \in {flash, e}
  BY Zenon DEF SaveErase, e
<1>6. AdmittedIsWhole'
  BY <1>1, <1>3, <1>4, <1>5, Zenon DEF StoreInv, AdmittedIsWhole
<1>7. CASE job' = Ends("ERASE_FAILED")
  <2>1. /\ job' \in [step : {"idle", "erase", "program", "rest", "verify"}, at : Nat,
                     snap : [Sections -> Values], result : Results]
        /\ job'.step = "idle" /\ job'.result = "ERASE_FAILED"
    BY <1>1, <1>7, EndsFacts DEF Results
  <2>2. StoreTypeOK'
    BY <1>1, <1>2, <1>5, <2>1, Zenon DEF StoreTypeOK
  <2>3. QED
    BY <1>6, <2>1, <2>2 DEF StoreInv, InOrder, ReportedIsStored, KeepsVerdict
<1>8. CASE job.at = 56 /\ flash' = e /\ job' = [job EXCEPT !.at = 57]
  <2>1. /\ job' \in [step : {"idle", "erase", "program", "rest", "verify"}, at : Nat,
                     snap : [Sections -> Values], result : Results]
        /\ job'.step = "erase" /\ job'.at = 57 /\ job'.snap = job.snap
        /\ job'.result = "NOT_ATTEMPTED"
    BY <1>1, <1>8 DEF StoreTypeOK
  <2>2. StoreTypeOK'
    BY <1>1, <1>2, <1>5, <2>1, Zenon DEF StoreTypeOK
  <2>3. InOrder' /\ KeepsVerdict'
    BY <1>1, <1>2, <1>8, <2>1 DEF StoreInv, InOrder, KeepsVerdict
  <2>4. QED
    BY <1>6, <2>1, <2>2, <2>3 DEF StoreInv, ReportedIsStored
<1>9. CASE job.at = 57 /\ flash' = e /\ job' = [job EXCEPT !.step = "program", !.at = 1]
  <2>1. /\ job' \in [step : {"idle", "erase", "program", "rest", "verify"}, at : Nat,
                     snap : [Sections -> Values], result : Results]
        /\ job'.step = "program" /\ job'.at = 1 /\ job'.snap = job.snap
        /\ job'.result = "NOT_ATTEMPTED"
    BY <1>1, <1>9 DEF StoreTypeOK
  <2>2. StoreTypeOK'
    BY <1>1, <1>2, <1>5, <2>1, Zenon DEF StoreTypeOK
  <2>3. \A s \in Sections : ~Whole(flash'[s])
    BY <1>2, <1>9, BlankFacts
  <2>4. InOrder' /\ KeepsVerdict'
    BY <1>1, <2>1, <2>3, LayoutFacts DEF StoreInv, InOrder, KeepsVerdict
  <2>5. QED
    BY <1>6, <2>1, <2>2, <2>4 DEF StoreInv, ReportedIsStored
<1>10. QED
  BY <1>1, <1>7, <1>8, <1>9, Zenon DEF SaveErase, e
\* What is known while sections are written.
LEMMA Writing ==
    ASSUME StoreInv, job.step \in {"program", "rest"}
    PROVE  /\ flash \in [Sections -> Cells] /\ worn \in BOOLEAN /\ saves \in 0 .. MaxSaves
           /\ job.at \in 1 .. Len(Layout) /\ job.at \in Nat /\ Current \in Sections
           /\ Clean(flash, worn, job.at)
           /\ job.snap \in [Sections -> Values] /\ job.snap[Current] \in Values
           /\ Stored(job.snap[Current], saves) \in Cells
           /\ job.result = "NOT_ATTEMPTED"
<1>1. /\ flash \in [Sections -> Cells] /\ worn \in BOOLEAN /\ saves \in 0 .. MaxSaves
      /\ job.snap \in [Sections -> Values]
  BY DEF StoreInv, StoreTypeOK
<1>2. /\ job.at \in 1 .. Len(Layout) /\ Clean(flash, worn, job.at)
      /\ job.result = "NOT_ATTEMPTED"
  BY DEF StoreInv, InOrder, Clean
<1>3. Current \in Sections /\ job.at \in Nat
  BY <1>2, LayoutFacts DEF Current
<1>4. QED
  BY <1>1, <1>2, <1>3, StoredFacts

LEMMA BeginKeeps == StoreInv /\ SaveBegin => StoreInv'
<1> SUFFICES ASSUME StoreInv, SaveBegin PROVE StoreInv'
  OBVIOUS
<1>1. /\ UNCHANGED <<ram, ok, saves, worn>> /\ job.step = "program"
      /\ flash[Current] = Blank /\ flash' = [flash EXCEPT ![Current] = Torn]
      /\ job' = [job EXCEPT !.step = "rest"]
  BY DEF SaveBegin, Writes
<1>2. Clean(flash', worn, job.at) /\ flash' \in [Sections -> Cells]
  BY <1>1, Writing, CleanBegin, BlankFacts
<1>3. /\ job' \in [step : {"idle", "erase", "program", "rest", "verify"}, at : Nat,
                   snap : [Sections -> Values], result : Results]
      /\ job'.step = "rest" /\ job'.at = job.at /\ job'.snap = job.snap
      /\ job'.result = "NOT_ATTEMPTED"
  BY <1>1, Writing DEF StoreInv, StoreTypeOK
<1>4. StoreTypeOK'
  BY <1>1, <1>2, <1>3, Zenon DEF StoreInv, StoreTypeOK
<1>5. AdmittedIsWhole'
  BY <1>1, <1>2, CleanIsWhole, Writing DEF AdmittedIsWhole
<1>6. InOrder'
  BY <1>1, <1>2, <1>3, Writing DEF InOrder, Clean
<1>7. KeepsVerdict'
  BY <1>1, <1>3 DEF StoreInv, KeepsVerdict
<1>8. QED
  BY <1>3, <1>4, <1>5, <1>6, <1>7 DEF StoreInv, ReportedIsStored

LEMMA FinishKeeps == StoreInv /\ SaveFinish => StoreInv'
<1> SUFFICES ASSUME StoreInv, SaveFinish PROVE StoreInv'
  OBVIOUS
<1> DEFINE i == job.at
           v == job.snap[Current]
<1>1. /\ UNCHANGED <<ram, ok, saves>> /\ job.step \in {"program", "rest"}
      /\ job' = IF i = Len(Layout) THEN [job EXCEPT !.step = "verify", !.at = 0]
                ELSE [job EXCEPT !.step = "program", !.at = i + 1]
  BY DEF SaveFinish
<1>2. /\ flash' \in [Sections -> Cells] /\ worn' \in BOOLEAN
      /\ Clean(flash', worn', i + 1)
  <2>1. CASE flash' = [flash EXCEPT ![Current] = Stored(v, saves)] /\ worn' = worn
    <3>1. Clean([flash EXCEPT ![Layout[i]] = Stored(v, saves)], worn, i + 1)
      BY <1>1, Writing, CleanFinish
    <3>2. QED
      BY <1>1, <2>1, <3>1, Writing DEF Current
  <2>2. CASE Current # "magic" /\ flash' = [flash EXCEPT ![Current] = Torn] /\ worn' = TRUE
    <3>1. \A s \in Sections : flash'[s] = IF s = Current THEN Torn ELSE flash[s]
      BY <1>1, <2>2, Writing
    <3>2. \A s \in Sections : Whole(flash'[s]) => flash'[s].save = saves
      BY <1>1, <3>1, Writing, BlankFacts DEF Clean
    <3>3. i + 1 <= 2 => ~Whole(flash'["magic"])
      BY <1>1, <3>1, Writing, BlankFacts, LayoutFacts DEF Clean
    <3>4. flash' \in [Sections -> Cells]
      BY <1>1, <2>2, Writing, BlankFacts
    <3>5. QED
      BY <2>2, <3>2, <3>3, <3>4 DEF Clean
  <2>3. QED
    BY <2>1, <2>2, Zenon DEF SaveFinish, Writes
<1>3. AdmittedIsWhole'
  BY <1>1, <1>2, CleanIsWhole, Writing DEF AdmittedIsWhole
<1>4. /\ job' \in [step : {"idle", "erase", "program", "rest", "verify"}, at : Nat,
                   snap : [Sections -> Values], result : Results]
      /\ job'.step \in {"program", "verify"} /\ job'.snap = job.snap
      /\ job'.step = "program" => job'.at = i + 1 /\ i + 1 \in 1 .. Len(Layout)
      /\ job'.result = "NOT_ATTEMPTED"
  <2>1. i \in Nat /\ i + 1 \in Nat /\ (i # Len(Layout) => i + 1 \in 1 .. Len(Layout))
    BY <1>1, Writing, LayoutFacts
  <2>2. QED
    BY <1>1, <2>1, Writing DEF StoreInv, StoreTypeOK
<1>5. StoreTypeOK'
  BY <1>1, <1>2, <1>4, Zenon DEF StoreInv, StoreTypeOK
<1>6. InOrder'
  BY <1>1, <1>2, <1>4 DEF InOrder, Clean
<1>7. KeepsVerdict'
  BY <1>1, <1>4 DEF StoreInv, KeepsVerdict
<1>8. QED
  BY <1>3, <1>4, <1>5, <1>6, <1>7 DEF StoreInv, ReportedIsStored

LEMMA FailureKeeps == StoreInv /\ SaveProgramFails => StoreInv'
<1> SUFFICES ASSUME StoreInv, SaveProgramFails PROVE StoreInv'
  OBVIOUS
<1> DEFINE i == job.at
           v == job.snap[Current]
<1>1. /\ UNCHANGED <<ram, ok, saves, worn>> /\ job.step \in {"program", "rest"}
      /\ job' = Ends("PROGRAM_FAILED")
  BY DEF SaveProgramFails
<1>2. flash' \in [Sections -> Cells] /\ Clean(flash', worn, i)
  <2>1. CASE flash' = flash
    BY <1>1, <2>1, Writing
  <2>2. CASE flash[Current] = Blank /\ flash' = [flash EXCEPT ![Current] = Torn]
    BY <1>1, <2>2, Writing, CleanBegin, BlankFacts
  <2>3. CASE Current = "magic" /\ flash' = [flash EXCEPT ![Current] = Stored(v, saves)]
    <3>1. Clean([flash EXCEPT !["magic"] = Stored(v, saves)], worn, i)
      BY <1>1, <2>3, Writing, CleanMagic DEF Current
    <3>2. QED
      BY <1>1, <2>3, <3>1, Writing
  <2>4. QED
    BY <2>1, <2>2, <2>3, Zenon DEF SaveProgramFails, Writes
<1>3. AdmittedIsWhole'
  BY <1>1, <1>2, CleanIsWhole, Writing DEF AdmittedIsWhole
<1>4. /\ job' \in [step : {"idle", "erase", "program", "rest", "verify"}, at : Nat,
                   snap : [Sections -> Values], result : Results]
      /\ job'.step = "idle" /\ job'.result = "PROGRAM_FAILED"
  BY <1>1, EndsFacts DEF StoreInv, Results
<1>5. StoreTypeOK'
  BY <1>1, <1>2, <1>4, Zenon DEF StoreInv, StoreTypeOK
<1>6. QED
  BY <1>3, <1>4, <1>5 DEF StoreInv, InOrder, ReportedIsStored, KeepsVerdict

LEMMA VerifyKeeps == StoreInv /\ SaveVerify => StoreInv'
<1> SUFFICES ASSUME StoreInv, SaveVerify PROVE StoreInv'
  OBVIOUS
<1>1. /\ UNCHANGED <<flash, ram, ok, saves, worn>> /\ job.step = "verify"
  BY DEF SaveVerify
<1>2. PICK r \in {"WRITTEN", "LOCK_FAILED", "VERIFY_FAILED"} :
         job' = Ends(r) /\ (r = "WRITTEN" => Holds(flash, job.snap))
  BY Zenon DEF SaveVerify
<1>3. /\ job' \in [step : {"idle", "erase", "program", "rest", "verify"}, at : Nat,
                   snap : [Sections -> Values], result : Results]
      /\ job'.step = "idle" /\ job'.result = r /\ job'.snap = job.snap
  BY <1>2, EndsFacts DEF StoreInv, Results
<1>4. StoreTypeOK'
  BY <1>1, <1>3, Zenon DEF StoreInv, StoreTypeOK
<1>5. AdmittedIsWhole'
  BY <1>1, Zenon DEF StoreInv, AdmittedIsWhole, Admitted
<1>6. ReportedIsStored'
  BY <1>1, <1>2, <1>3 DEF ReportedIsStored, Holds
<1>7. KeepsVerdict'
  BY <1>1, <1>3 DEF StoreInv, KeepsVerdict
<1>8. QED
  BY <1>3, <1>4, <1>5, <1>6, <1>7 DEF StoreInv, InOrder

LEMMA BootKeeps == StoreInv /\ Boot => StoreInv'
<1> SUFFICES ASSUME StoreInv, Boot PROVE StoreInv'
  OBVIOUS
<1>1. /\ UNCHANGED <<flash, saves, worn>> /\ job' = NoJob
      /\ ram' = Download(flash).ram /\ ok' = Download(flash).ok
  BY DEF Boot
<1>2. ram' \in [Sections -> Values] /\ ok' \in [axis : BOOLEAN, load : BOOLEAN]
  BY <1>1, DownloadType DEF StoreInv, StoreTypeOK
<1>3. /\ job' \in [step : {"idle", "erase", "program", "rest", "verify"}, at : Nat,
                   snap : [Sections -> Values], result : Results]
      /\ job'.step = "idle" /\ job'.result = "NOT_ATTEMPTED"
  BY <1>1 DEF NoJob, NoSnapshot, Results, Values, Made
<1>4. StoreTypeOK'
  BY <1>1, <1>2, <1>3, Zenon DEF StoreInv, StoreTypeOK
<1>5. AdmittedIsWhole'
  BY <1>1, Zenon DEF StoreInv, AdmittedIsWhole, Admitted
<1>6. QED
  BY <1>3, <1>4, <1>5 DEF StoreInv, InOrder, ReportedIsStored, KeepsVerdict

-----------------------------------------------------------------------------
(* The theorems.                                                           *)

\* Nothing but a reset, a command or a step of a save touches the parameters,
\* and each keeps the order of the writes.
THEOREM StoreInvariance == StoreSpec => []StoreInv
<1>1. StoreInv /\ [StoreNext]_vars => StoreInv'
  <2> SUFFICES ASSUME StoreInv, [StoreNext]_vars PROVE StoreInv'
    OBVIOUS
  <2>1. CASE UNCHANGED vars
    BY <2>1, Zenon DEF vars, StoreInv, StoreTypeOK, InOrder, AdmittedIsWhole, Admitted,
                       ReportedIsStored, Holds, KeepsVerdict
  <2>2. CASE StoreNext
    BY <2>2, HostKeeps, StartKeeps, EraseKeeps, BeginKeeps, FinishKeeps, FailureKeeps,
       VerifyKeeps, BootKeeps DEF StoreNext, Save
  <2>3. QED
    BY <2>1, <2>2
<1>2. QED
  BY StoreInitially, <1>1, PTL DEF StoreSpec

\* The stored sections, the RAM and the save are what they are declared to be.
THEOREM StoreTypes == StoreSpec => []StoreTypeOK
<1>1. StoreInv => StoreTypeOK
  BY DEF StoreInv
<1>2. QED
  BY StoreInvariance, <1>1, PTL

\* However a save is cut short or fails, in however long a life, a record that
\* the next start admits has its node, calibration and gains whole and from
\* the save of its magic word (flash_write_param, Param_Download).
THEOREM AdmittedRecordIsWhole == StoreSpec => []AdmittedIsWhole
<1>1. StoreInv => AdmittedIsWhole
  BY DEF StoreInv
<1>2. QED
  BY StoreInvariance, <1>1, PTL

\* A save reported as written or unchanged is in flash until the next one
\* (last_save_result of flash.c).
THEOREM ReportedSaveIsStored == StoreSpec => []ReportedIsStored
<1>1. StoreInv => ReportedIsStored
  BY DEF StoreInv
<1>2. QED
  BY StoreInvariance, <1>1, PTL

\* A profile refused at start is refused after a successful save, too, for the
\* tail records of any build (Param_Upload, foc_param.c:395).
THEOREM RefusedProfileStaysRefused == StoreSpec => RefusedStaysRefused
<1>1. StoreInv /\ [StoreNext]_vars =>
        [Boot /\ job.result = "WRITTEN" =>
           /\ ~ok.load => ~ok'.load
           /\ ram["axis"] = "bad" => ~ok'.axis]_vars
  <2> SUFFICES ASSUME StoreInv, Boot, job.result = "WRITTEN"
               PROVE  /\ ~ok.load => ~ok'.load
                      /\ ram["axis"] = "bad" => ~ok'.axis
    OBVIOUS
  <2>1. /\ flash \in [Sections -> Cells] /\ job.snap \in [Sections -> Values]
        /\ Holds(flash, job.snap)
        /\ ~ok.load => job.snap["load"] = "void"
        /\ ram["axis"] = "bad" => job.snap["axis"] = "bad"
    BY DEF StoreInv, StoreTypeOK, ReportedIsStored, KeepsVerdict
  <2>2. ok' = Download(flash).ok
    BY DEF Boot
  <2>3. QED
    BY <2>1, <2>2, RefusedAgain
<1>2. QED
  BY StoreInvariance, <1>1, PTL DEF StoreSpec, RefusedStaysRefused
=============================================================================
