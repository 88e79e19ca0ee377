------------------------- MODULE MCPreferencesFile -------------------------
(* TLC instances of PreferencesFile. *)
EXTENDS PreferencesFile, TLC

CONSTANTS d, s

\* A file of each kind, and as the object one with settings, keys and values of
\* another build; the other objects are those the launcher saves.
OneOfEach == {Absent, Garbage, Document("json", s, TRUE, TRUE, FALSE),
              Document("deep", s, TRUE, TRUE, TRUE)}
=============================================================================
