----------------------------- MODULE Configuration -----------------------------
(***************************************************************************)
(* The stored configuration (settings.rs, config.rs, console::save_settings *)
(* and apply at boot): one document, applied and then saved through one     *)
(* temporary file.  One request at a time: nothing in the code says so, and *)
(* two that overlap write the same config.toml.new.                         *)
(***************************************************************************)
EXTENDS Integers, FiniteSets, Faults

CONSTANTS
  Wishes,          \* what a request may ask for: functions from some of Fields
  InitialConfigs,  \* what may be stored when the machine starts
  Valid            \* the host names the kernel may be given

VARIABLES
  file,            \* CONFIG_FILE: [whole, is]
  temp,            \* config.toml.new: [whole, is]
  name,            \* the kernel's host name, and the one /etc/hostname has for the next boot
  saver            \* the thread that serves POST /api/config

configuration == <<file, temp, name, saver>>

Fields  == {"channel", "url", "check", "hostname"}
Default == [channel |-> "stable", url |-> "", check |-> "on", hostname |-> "medialith"]
ASSUME ConfigsAssumption == InitialConfigs \subseteq [Fields -> STRING]
NoTemp  == [whole |-> FALSE, is |-> Default]
AtRest  == [at |-> "rest", config |-> Default, wish |-> Default]

(* Config::tracked and is_configured. *)
Tracked(config)    == config.channel
Configured(config) == config.url # ""

ConfigurationTypeOK ==
  /\ file.whole \in BOOLEAN /\ temp.whole \in BOOLEAN
  /\ \A c \in {file.is, temp.is, saver.config} : DOMAIN c = Fields
  /\ saver.at \in {"rest", "apply", "create", "write", "rename"}
  /\ DOMAIN name = {"kernel", "stored"}

ConfigurationInit ==
  /\ file \in [whole : {TRUE}, is : {c \in InitialConfigs : Happens("settings") \/ Configured(c)}] /\ temp = NoTemp
  /\ saver = AtRest
  /\ name = [kernel |-> file.is.hostname, stored |-> file.is.hostname]

Saver(at) == saver.at = at
Saves(at) == saver' = [saver EXCEPT !.at = at]

(* load: a missing file is the defaults; one that does not parse, or of another schema, is an error. *)
Load == file

(* Mutant: the body as it is. *)
PatchedWhole(config, wish) == wish
(* patch and patch_updates: the fields the body names, refused for a channel nobody here knows. *)
Patched(config, wish) == [f \in Fields |-> IF f \in DOMAIN wish THEN wish[f] ELSE config[f]]
Acceptable(wish) == "channel" \in DOMAIN wish => wish.channel \in {"stable", "beta"}

-----------------------------------------------------------------------------
(* save_settings: loaded and patched, or refused; the reply says what could not be. *)
Save == \E wish \in Wishes :
  /\ Happens("settings") /\ Saver("rest")
  /\ Load.whole /\ Acceptable(wish)
  /\ saver' = [at |-> "apply", config |-> Patched(Load.is, wish), wish |-> wish]
  /\ UNCHANGED <<file, temp, name>>

(* apply_hostname: the kernel's name first, and then the file, which fs::write empties and may fail to write; that is not
   fatal, and a name that is not valid is reported and stored all the same. *)
Nameless == ""
Named(wanted) ==
  IF wanted \notin Valid \/ wanted = name.kernel THEN {name}
  ELSE [kernel : {wanted}, stored : {wanted} \cup {old \in {name.stored, Nameless} : Happens("full")}]

Apply ==
  /\ Saver("apply")
  /\ name' \in Named(saver.config.hostname)
  /\ Saves("create")
  /\ UNCHANGED <<file, temp>>

(* save: fs::write creates the temporary or empties it and writes it, nothing syncs it, and fs::rename puts it in force
   or takes it away again; on a full disk it can end at each. *)
Create ==
  /\ Saver("create")
  /\ \/ temp' = [whole |-> FALSE, is |-> saver.config] /\ Saves("write")
     \/ Happens("full") /\ saver' = AtRest /\ UNCHANGED temp
  /\ UNCHANGED <<file, name>>
Write ==
  /\ Saver("write")
  /\ \/ temp' = [whole |-> TRUE, is |-> saver.config] /\ Saves("rename")
     \/ Happens("full") /\ saver' = AtRest /\ UNCHANGED temp
  /\ UNCHANGED <<file, name>>
Rename ==
  /\ Saver("rename")
  /\ \/ file' = temp
     \/ Happens("full") /\ UNCHANGED file
  /\ temp' = NoTemp /\ saver' = AtRest
  /\ UNCHANGED name

(* run: what is stored is applied once more when the console starts. *)
Restarted ==
  /\ saver' = AtRest
  /\ name' \in IF file.whole THEN Named(file.is.hostname) ELSE {name}
  /\ UNCHANGED <<file, temp>>

Serving == Apply \/ Create \/ Write \/ Rename
Serve   == Save \/ Serving

-----------------------------------------------------------------------------
(* "Through a temporary file and a rename, because the alternative is a half-written TOML": whoever dies and whatever
   is full, what is stored can be read (settings.rs, save). *)
FileIsWhole == file.whole

(* What is put in force beside what was stored is what was asked: a setting the request did not name is the one it
   found, whatever fails on the way. *)
NothingElseChanges == file' # file => \A f \in Fields \ DOMAIN saver.wish : file'.is[f] = file.is[f]
=============================================================================
