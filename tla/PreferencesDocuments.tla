------------------------ MODULE PreferencesDocuments ------------------------
(***************************************************************************)
(* TypeDuckPreferences.json: what the file can hold and what reading it    *)
(* tells (TypeDuckPreferences.cpp).  The eleven settings a user chooses in *)
(* the settings window are one opaque value; asciiMode, which the engine   *)
(* reports, is a field of its own; so is the question whether the document *)
(* has keys this build does not model.                                     *)
(***************************************************************************)

CONSTANTS
    Settings,   \* the values the settings window can show
    Default     \* defaultPreferences(), without asciiMode

ASSUME DefaultAssumption == Default \in Settings

\* A document: "absent", "garbage" (not a JSON object), "json", or "deep" (an
\* object nested so deeply that the parser throws).  "ranged" tells that no value
\* had to be replaced by its default when the document was read.
Document(kind, settings, mode, unknown, ranged) ==
    [kind |-> kind, settings |-> settings, mode |-> mode,
     unknown |-> unknown, ranged |-> ranged]

Empty(kind) == Document(kind, Default, FALSE, FALSE, TRUE)

Absent  == Empty("absent")
Garbage == Empty("garbage")

Json == [kind : {"json"}, settings : Settings, mode : BOOLEAN,
         unknown : BOOLEAN, ranged : BOOLEAN]
Deep == [kind : {"deep"}, settings : Settings, mode : BOOLEAN,
         unknown : {TRUE}, ranged : {TRUE}]

Documents == {Absent, Garbage} \cup Json \cup Deep

-----------------------------------------------------------------------------
(* loadPreferences: the values, where they come from, and whether all is well. *)

Loaded(source, settings, mode, ok) ==
    [source |-> source, settings |-> settings, mode |-> mode, ok |-> ok]

\* Defaults nobody has read.
Invented(source) == Loaded(source, Default, FALSE, FALSE)

Parsed(d) ==
    CASE d.kind = "absent"  -> Loaded("Absent", Default, FALSE, TRUE)
      [] d.kind = "json"    -> Loaded("File", d.settings, d.mode, d.ranged)
      [] d.kind = "garbage" -> Invented("Corrupt")
      [] d.kind = "deep"    -> Invented("Undetermined")

\* The file may also be locked, denied or on a dropped share.
LoadResults(d) == {Parsed(d), Invented("IoError")}

PreferencesAreAuthoritative(r) == r.source \in {"File", "Absent"}

\* Wrong: what does not parse may be rewritten, whether or not it was judged.
BlocksWritesIfUnread(r) == r.source = "IoError"

\* The two verdicts under which the contents are unknown.
PreferencesBlockWrites(r) == r.source \in {"IoError", "Undetermined"}

\* preferencesToJson: the known keys are overwritten, the others stay.
Merged(base, settings, mode) ==
    Document("json", settings, mode, base.kind = "json" /\ base.unknown, TRUE)
=============================================================================
