-------------------------- MODULE PreferencesStore --------------------------
(***************************************************************************)
(* What the preferences file promises: it changes only as a whole, by one  *)
(* change of the input mode or one change of the settings, each of which   *)
(* leaves everything else as it was, and never when its contents are not   *)
(* known.  PreferencesFile implements this over temp files and renames.    *)
(***************************************************************************)
EXTENDS PreferencesDocuments

VARIABLE store

StoreInit == store \in Documents

\* What the file is taken to hold: itself, all values in their ranges, or the
\* defaults when there is no file or only garbage.
Readable == IF store.kind = "json" THEN [store EXCEPT !.ranged = TRUE]
            ELSE Empty("json")

\* A toggle of the input mode.
SaveMode(mode) ==
    /\ store.kind # "deep"
    /\ store' = [Readable EXCEPT !.mode = mode]

\* A confirmed settings dialog, or the settings applied at startup.
SaveSettings(settings) ==
    /\ store.kind # "deep"
    /\ store' = [Readable EXCEPT !.settings = settings]

StoreNext ==
    \/ \E mode \in BOOLEAN : SaveMode(mode)
    \/ \E settings \in Settings : SaveSettings(settings)

StoreSpec == StoreInit /\ [][StoreNext]_store
=============================================================================
