------------------------------- MODULE Settings -------------------------------
(***************************************************************************)
(* From a configuration file and a command line to the settings a run uses *)
(* (config.rs and the selection part of main.rs).                          *)
(*                                                                         *)
(* A profile and the arguments of a command are functions from option      *)
(* names to sets of at most one value; an option that is not in the domain *)
(* was not given.  Everything that can be refused returns a set: empty for *)
(* a configuration error, otherwise the one thing it resolves to.          *)
(***************************************************************************)
EXTENDS Naturals, Sequences, FiniteSets, SequencesExt, FiniteSetsExt

Opt(p, f) == IF f \in DOMAIN p THEN p[f] ELSE {}
Flag(p, f) == TRUE \in Opt(p, f)
Given(args, profile, f) == IF Opt(args, f) # {} THEN Opt(args, f) ELSE Opt(profile, f)
ValueOr(s, default) == IF s = {} THEN default ELSE CHOOSE x \in s : TRUE
Require(condition, r) == IF condition THEN {r} ELSE {}

DEFAULT_JOBS == 2
DEFAULT_MAX_DELETE == 100
DEFAULT_RETRIES == 2
DEFAULT_MAX_TOTAL_DELETE == 100

(***************************************************************************)
(* Choosing profiles.  A configuration is [profiles, default]; `file` is   *)
(* the set of configurations found (empty when there is no file).          *)
(***************************************************************************)
NoProfile == <<>>
Selected(name, values) == [name |-> name, values |-> values]

\* A name asked for, on the command line or as the file's default, must
\* exist; the implicit "default" may be missing.
select_profile(cfg, requested) ==
    LET name == ValueOr(IF requested # {} THEN requested ELSE cfg.default, "default")
        known == name \in DOMAIN cfg.profiles
    IN Require(known \/ (requested = {} /\ cfg.default = {}),
               Selected(name, IF known THEN cfg.profiles[name] ELSE NoProfile))

load_optional_config(file, explicit, requested) ==
    IF explicit THEN {{c} : c \in file}                      \* a named file must load
    ELSE Require(file # {} \/ requested = {}, file)

select_optional_profile(loaded, requested) ==
    IF loaded = {} THEN Require(requested = {}, Selected("command-line", NoProfile))
    ELSE UNION {select_profile(c, requested) : c \in loaded}

validate_environment_name(name) == name # ""
validate_dsm_url(u, allow_http) == u.bare /\ (u.scheme = "https" \/ (allow_http /\ u.scheme = "http"))
validate_remote_log_url(u) == u.bare /\ u.scheme = "https"

validate_profile(p) ==
    /\ \A u \in Opt(p, "url") : validate_dsm_url(u, Flag(p, "allow_http"))
    /\ \A u \in Opt(p, "log_url") : validate_remote_log_url(u)
    /\ \A n \in Opt(p, "jobs") : n \in 1..16
    /\ \A n \in Opt(p, "retries") : n <= 5
    /\ \A f \in {"timeout", "connect_timeout", "max_rate"} : 0 \notin Opt(p, f)
    /\ Flag(p, "allow_empty") => Flag(p, "delete")
    /\ Opt(p, "token_file") = {} \/ Opt(p, "token_env") = {}
    /\ "required" \in Opt(p, "log_mode") => Opt(p, "log_url") # {}
    /\ Opt(p, "token_file") \cup Opt(p, "token_env") # {} => Opt(p, "log_url") # {}
    /\ \A n \in Opt(p, "token_env") : validate_environment_name(n)

\* A batch is [requested, all, names]; names are as typed, in order.
\* The result is the set of profiles the command works on.
select_job_profiles(loaded, requested, batch) ==
    IF ~ batch.requested THEN {{s} : s \in select_optional_profile(loaded, requested)}
    ELSE IF requested # {} \/ loaded = {} THEN {}
    ELSE UNION {LET names == IF batch.all THEN DOMAIN c.profiles ELSE {batch.names[i] : i \in DOMAIN batch.names}
                IN Require(/\ DOMAIN c.profiles # {}
                           /\ batch.all \/ Cardinality(names) = Len(batch.names)
                           /\ names \subseteq DOMAIN c.profiles
                           /\ "" \notin names
                           /\ \A n \in names : validate_profile(c.profiles[n]),
                           {Selected(n, c.profiles[n]) : n \in names}) : c \in loaded}

validate_batch_pair_overrides(batch, args) ==
    IF batch.requested THEN Opt(args, "source") = {} /\ Opt(args, "remote") = {} ELSE batch.max_total = {}
validate_batch_source_override(batch, args) ==
    batch.max_total = {} /\ (batch.requested => Opt(args, "source") = {})
validate_batch_doctor_target_override(batch, args) ==
    batch.max_total = {} /\ (batch.requested => Opt(args, "remote") = {})

(***************************************************************************)
(* One job's settings.                                                     *)
(***************************************************************************)
resolve_network(p, a) ==
    LET retries == ValueOr(Given(a, p, "retries"), DEFAULT_RETRIES)
    IN Require(/\ retries <= 5
               /\ \A f \in {"timeout", "connect_timeout", "max_rate"} : 0 \notin Given(a, p, f),
               [retries |-> retries, allow_http |-> Flag(a, "allow_http") \/ Flag(p, "allow_http"),
                insecure |-> Flag(a, "insecure") \/ Flag(p, "insecure")])

resolve_connection(p, a, allow_http) ==
    {[url |-> u, username |-> n] : u \in {x \in Given(a, p, "url") : validate_dsm_url(x, allow_http)},
                                   n \in Given(a, p, "username")}

\* A password on standard input wins over the profile's file; --vault wins
\* over a profile that says not to use it.
resolve_authentication(p, a) ==
    [stdin     |-> Flag(a, "password_stdin"),
     file      |-> IF Flag(a, "password_stdin") THEN {} ELSE Given(a, p, "password_file"),
     totp_file |-> Given(a, p, "totp_file"),
     no_vault  |-> ~ Flag(a, "vault") /\ (Flag(a, "no_vault") \/ Flag(p, "no_vault"))]

resolve_behavior(p, a) ==
    LET jobs == ValueOr(Given(a, p, "jobs"), DEFAULT_JOBS)
    IN Require(jobs \in 1..16,
               [jobs |-> jobs, compare |-> ValueOr(Given(a, p, "compare"), "content"),
                excludes |-> Opt(p, "excludes") \cup Opt(a, "excludes"), scope |-> Opt(a, "scope")])

resolve_safety(p, a) ==
    LET delete == ~ Flag(a, "no_delete") /\ (Flag(a, "delete") \/ Flag(p, "delete"))
        empty  == ~ Flag(a, "no_delete") /\ (Flag(a, "allow_empty") \/ Flag(p, "allow_empty"))
    IN Require(empty => delete,
               [delete |-> delete, allow_empty |-> empty,
                max_delete |-> ValueOr(Given(a, p, "max_delete"), DEFAULT_MAX_DELETE)])

\* A level on the command line, then -v, then the profile's level, then the
\* profile's -v.
resolve_log_level(p, a) ==
    LET av == ValueOr(Opt(a, "verbose"), 0)
        pv == ValueOr(Opt(p, "verbose"), 0)
        by(v) == IF v >= 2 THEN "trace" ELSE "debug"
    IN IF Opt(a, "log_level") # {} THEN ValueOr(Opt(a, "log_level"), "info")
       ELSE IF av > 0 THEN by(av)
       ELSE IF Opt(p, "log_level") # {} THEN ValueOr(Opt(p, "log_level"), "info")
       ELSE IF pv > 0 THEN by(pv) ELSE "info"

\* Where the collector's token comes from: the command line's pair replaces
\* the profile's as a whole.
remote_log_token(p, a, url) ==
    LET own  == Opt(a, "token_file") \cup Opt(a, "token_env") # {}
        file == IF own THEN Opt(a, "token_file") ELSE Opt(p, "token_file")
        env  == IF own THEN (IF file # {} THEN {} ELSE Opt(a, "token_env")) ELSE Opt(p, "token_env")
    IN Require(/\ file = {} \/ env = {}
               /\ \A n \in env : validate_environment_name(n)
               /\ url = {} => file \cup env = {},
               IF file # {} THEN "file" ELSE IF env # {} \/ url # {} THEN "environment" ELSE "none")

resolve_output(p, a) ==
    LET url == Given(a, p, "log_url")
        mode == ValueOr(Given(a, p, "log_mode"), "best-effort")
    IN {[quiet |-> ~ Flag(a, "no_quiet") /\ (Flag(a, "quiet") \/ Flag(p, "quiet")),
         log_level |-> resolve_log_level(p, a), log_url |-> url, log_mode |-> mode, token |-> t,
         log_format |-> ValueOr(Given(a, p, "log_format"), "human"),
         progress |-> ValueOr(Given(a, p, "progress"), "auto"),
         output |-> ValueOr(Given(a, p, "output"), "human")] :
            t \in {x \in remote_log_token(p, a, url) : /\ \A u \in url : validate_remote_log_url(u)
                                                       /\ mode = "required" => url # {}}}

resolve_sync(p, a) ==
    UNION {{[source |-> s, remote |-> r, connection |-> c, authentication |-> resolve_authentication(p, a),
             behavior |-> b, safety |-> f, network |-> n, output |-> o] :
                s \in Given(a, p, "source"), r \in Given(a, p, "remote"),
                c \in resolve_connection(p, a, n.allow_http), b \in resolve_behavior(p, a),
                f \in resolve_safety(p, a), o \in resolve_output(p, a)} : n \in resolve_network(p, a)}

\* --routing-only is the quick level; a write test is extensive and needs a
\* destination; anything but quick needs an account.
doctor_level(a) ==
    IF Flag(a, "routing_only") THEN "quick"
    ELSE IF Flag(a, "write_test") /\ Opt(a, "level") = {} THEN "extensive"
    ELSE ValueOr(Opt(a, "level"), "standard")

resolve_doctor(p, a) ==
    UNION {{[remote |-> Given(a, p, "remote"), level |-> doctor_level(a), write_test |-> Flag(a, "write_test"),
             compare |-> ValueOr(Opt(p, "compare"), "content"), delete |-> Flag(p, "delete"),
             url |-> u, username |-> Given(a, p, "username"), authentication |-> resolve_authentication(p, a),
             network |-> n, output |-> o] :
                u \in {x \in Given(a, p, "url") : validate_dsm_url(x, n.allow_http)},
                o \in {x \in resolve_output(p, a) :
                         /\ Flag(a, "routing_only") => ~ Flag(a, "target") /\ Opt(a, "level") \subseteq {"quick"}
                         /\ Flag(a, "write_test") => doctor_level(a) = "extensive" /\ Given(a, p, "remote") # {}
                         /\ doctor_level(a) # "quick" => Given(a, p, "username") # {}}} : n \in resolve_network(p, a)}

resolve_source_doctor(p, a) ==
    {[source |-> s, excludes |-> Opt(p, "excludes") \cup Opt(a, "excludes"), hash_content |-> Flag(a, "hash"), output |-> o] :
        s \in Given(a, p, "source"), o \in resolve_output(p, a)}

resolve_credential_profile(p, a) ==
    LET http == Flag(a, "allow_http") \/ Flag(p, "allow_http")
    IN {[url |-> c.url, username |-> c.username, allow_http |-> http] : c \in resolve_connection(p, a, http)}

(***************************************************************************)
(* What a command over several profiles may do (batch.rs and the batch     *)
(* part of main.rs): which profiles may run together, how many deletions   *)
(* they share, and what the whole says about its parts.                    *)
(*                                                                         *)
(* A remote root is a sequence of names.  As in Settings, what can be      *)
(* refused returns a set.                                                  *)
(***************************************************************************)

\* Two spellings of one address differ at most in a trailing slash.
normalize_endpoint(u) == Require(u.bare /\ u.scheme \in {"http", "https"}, <<u.scheme, u.at>>)

validate_job_name(name) == name # ""
validate_username(name) == name # ""

BatchJobParse(name, url, username, remote, delete, max_delete) ==
    {[name |-> name, endpoint |-> e, remote |-> remote, delete |-> delete, max_delete |-> max_delete] :
        e \in {x \in normalize_endpoint(url) : validate_job_name(name) /\ validate_username(username) /\ remote # <<>>}}

roots_overlap(a, b) == IsPrefix(a, b) \/ IsPrefix(b, a)

\* No two jobs of a batch write where another does.
ValidatedBatch(jobs) ==
    /\ jobs # {}
    /\ \A a, b \in jobs : a # b => /\ a.name # b.name
                                   /\ ~ (a.endpoint = b.endpoint /\ roots_overlap(a.remote, b.remote))

configured_deletion_limit(jobs) == FoldSet(LAMBDA j, n : n + j.max_delete, 0, {j \in jobs : j.delete})

\* `planned` maps every job's name to the deletions its preflight counted.
preflight_deletions(jobs, planned, aggregate) ==
    LET total == FoldSet(LAMBDA j, n : n + planned[j.name], 0, jobs)
    IN Require(/\ DOMAIN planned = {j.name : j \in jobs}
               /\ \A j \in jobs : planned[j.name] <= (IF j.delete THEN j.max_delete ELSE 0)
               /\ total <= aggregate,
               [total |-> total, remaining |-> Min({aggregate, configured_deletion_limit(jobs)}) - total])

\* Mutant: each job is measured against the whole budget.
reserve_batch_deletions_per_job(reserved, planned, maximum) == Require(planned <= maximum, reserved + planned)

\* The fresh plan of a job about to run takes its deletions out of what is
\* left of the batch's budget, or the job may not run.
reserve_batch_deletions(reserved, planned, maximum) == Require(reserved + planned <= maximum, reserved + planned)

\* Every format of the results is written from one setting: all agree.
common_batch_output(outputs) == Cardinality({o.output : o \in outputs}) = 1

SyncJobOf(j) ==
    BatchJobParse(j.name, j.settings.connection.url, j.settings.connection.username, j.settings.remote,
                  j.settings.safety.delete, j.settings.safety.max_delete)

\* Every target is authenticated twice, so a password on standard input
\* cannot serve a batch.
validate_sync_batch(jobs) ==
    /\ \A j \in jobs : ~ j.settings.authentication.stdin /\ SyncJobOf(j) # {}
    /\ ValidatedBatch(UNION {SyncJobOf(j) : j \in jobs})

validate_doctor_batch(jobs) ==
    LET placed == {j \in jobs : j.settings.remote # {} /\ j.settings.username # {}}
        parsed(j) == UNION {BatchJobParse(j.name, j.settings.url, n, r, FALSE, 0) :
                              r \in j.settings.remote, n \in j.settings.username}
    IN /\ \A j \in jobs : ~ j.settings.authentication.stdin
       /\ \A j \in placed : parsed(j) # {}
       /\ placed # {} => ValidatedBatch(UNION {parsed(j) : j \in placed})

(***************************************************************************)
(* Profiles of one file that share a destination.                          *)
(***************************************************************************)
\* A profile's own destination; without an address it is compared as if it
\* had `fallback`'s.
ProfileDestination(name, p, fallback) ==
    {[job |-> j, deletes |-> Flag(p, "delete")] :
        j \in UNION {BatchJobParse(name, ValueOr(Opt(p, "url"), fallback), "overlap-check", r, Flag(p, "delete"),
                                   ValueOr(Opt(p, "max_delete"), 0)) : r \in Opt(p, "remote")}}

overlap(a, b) ==
    IF ValidatedBatch({a.job, b.job}) THEN "none" ELSE IF a.deletes \/ b.deletes THEN "refused" ELSE "named"

\* One profile's run is refused when it would delete another's files, or
\* the other way round.  What cannot be compared is passed over.
refuse_overlapping_profiles(loaded, job, configured) ==
    LET this == {[job |-> j, deletes |-> job.settings.safety.delete \/ Flag(configured, "delete")] : j \in SyncJobOf(job)}
        others == UNION {UNION {ProfileDestination(n, c.profiles[n], job.settings.connection.url) :
                                  n \in DOMAIN c.profiles \ {job.name}} : c \in loaded}
    IN \A a \in this, b \in others : overlap(a, b) # "refused"

\* `config validate` compares all profiles, or the pairs one is part of.
validate_profile_overlaps(cfg, only) ==
    LET elsewhere == [scheme |-> "https", bare |-> TRUE, at |-> "unnamed"]
        named(n) == Opt(cfg.profiles[n], "url") # {}
        of(n) == ProfileDestination(n, cfg.profiles[n], elsewhere)
    IN /\ \A n \in DOMAIN cfg.profiles : Opt(cfg.profiles[n], "remote") # {} => of(n) # {}
       /\ \A m, n \in DOMAIN cfg.profiles :
            m # n /\ named(m) = named(n) /\ (only = {} \/ m \in only \/ n \in only)
               => \A a \in of(m), b \in of(n) : overlap(a, b) # "refused"

(***************************************************************************)
(* What the whole says.  `outcomes` is a sequence of [status, partial].    *)
(***************************************************************************)
Some(outcomes, statuses) == \E i \in DOMAIN outcomes : outcomes[i].status \in statuses

sync_batch_completion(outcomes, cancelled) ==
    IF cancelled THEN "cancelled"
    ELSE IF Some(outcomes, {"failed", "partial"}) THEN "error"
    ELSE IF \E i \in DOMAIN outcomes : outcomes[i].partial THEN "partial" ELSE "ok"

sync_batch_status(outcomes, batch_error) ==
    IF batch_error THEN "failed"
    ELSE IF Some(outcomes, {"partial"}) THEN "partial"
    ELSE IF ~ Some(outcomes, {"failed", "not-run"}) THEN "success"
    ELSE IF Some(outcomes, {"success"}) THEN "partial" ELSE "failed"

doctor_batch_completion(outcomes, cancelled) ==
    IF cancelled THEN "cancelled" ELSE IF Some(outcomes, {"failed", "partial"}) THEN "error" ELSE "ok"

all_doctor_targets_preflighted(outcomes, cancelled) ==
    /\ ~ cancelled /\ outcomes # <<>>
    /\ \A i \in DOMAIN outcomes : outcomes[i].status = "preflighted"

source_batch_completion(outcomes, cancelled) ==
    IF cancelled THEN "cancelled" ELSE IF Some(outcomes, {"failed"}) THEN "error" ELSE "ok"

source_batch_status(outcomes) ==
    IF ~ Some(outcomes, {"failed", "not-run"}) THEN "success"
    ELSE IF ~ Some(outcomes, {"success"}) THEN "failed" ELSE "partial"

\* A plan changes the exit code only when it was asked to.
batch_changes_completion(changes, cancelled, exit_code) ==
    IF cancelled THEN "cancelled" ELSE IF changes /\ exit_code THEN "changes" ELSE "ok"

(***************************************************************************)
(* Where the secrets of a login come from and how the one-time code is     *)
(* negotiated with DSM (credentials.rs, vault.rs).                         *)
(*                                                                         *)
(* `who` says what the process can draw on: [terminal, env_password,       *)
(* env_otp, vault].  A vault is [password, totp, broken]; a seed's code is *)
(* good for one 30-second window, so a code is <<source, window>>.         *)
(***************************************************************************)

CONSTANT Windows   \* the 30-second windows the clock can be in

TypedCode == <<"typed", 0>>
EnvCode == <<"env", 0>>
SeedCode(window) == <<"seed", window>>

\* An answer of a source of secrets: a value, nothing, or an error.
Value(v) == [kind |-> "value", v |-> v]
Nothing == [kind |-> "nothing"]
Broken == [kind |-> "error"]

\* A secret typed, piped or read from a file is one line, not empty and not
\* longer than the limit; `line` names what was found.
validate_secret_input(line) == line \notin {"empty", "too-long"}
read_secret(line) == IF line # "missing" /\ validate_secret_input(line) THEN Value(line) ELSE Broken

\* An otpauth URI for the algorithm, digits and period DSM uses, each named
\* at most once, or a Base32 key; either way 10 to 128 bytes.
parse_totp_secret(line) == line \in {"uri", "base32"}

prompt_secret(who) == IF who.interrupts THEN Broken ELSE Value("typed")

\* The vault is opened once; a vault that failed to open is then passed over.
VaultSessionOpen(enabled, who, failed) == IF ~ enabled \/ failed THEN "absent" ELSE IF who.vault.broken THEN "error" ELSE "open"

load_password(enabled, who) ==
    CASE VaultSessionOpen(enabled, who, FALSE) = "absent" -> Nothing
      [] VaultSessionOpen(enabled, who, FALSE) = "error" -> Broken
      [] OTHER -> IF who.vault.password THEN Value("stored") ELSE Nothing

\* A file, standard input, the environment, the vault, the terminal.
read_password_with_file(auth, who) ==
    IF auth.file # {} THEN read_secret(CHOOSE f \in auth.file : TRUE)
    ELSE IF auth.stdin THEN read_secret(who.stdin)
    ELSE IF who.env_password # "missing" THEN read_secret(who.env_password)
    ELSE LET stored == load_password(~ auth.no_vault, who)
         IN IF stored.kind = "value" THEN stored
            ELSE IF ~ who.terminal THEN Broken
            ELSE prompt_secret(who)

\* A new password comes from anywhere but the vault, typed twice alike.
read_new_password(auth, who) ==
    IF auth.file # {} THEN read_secret(CHOOSE f \in auth.file : TRUE)
    ELSE IF auth.stdin THEN read_secret(who.stdin)
    ELSE IF who.env_password # "missing" THEN read_secret(who.env_password)
    ELSE IF ~ who.terminal \/ who.mistypes THEN Broken ELSE prompt_secret(who)

read_totp_provisioning(auth, who) ==
    IF auth.totp_file # {} THEN read_secret(CHOOSE f \in auth.totp_file : TRUE)
    ELSE IF auth.stdin THEN read_secret(who.stdin)
    ELSE IF ~ who.terminal THEN Broken ELSE prompt_secret(who)

\* The code for now: from the seed file if one is named, else the vault's.
vault_totp(auth, who, window, failed) ==
    IF auth.totp_file # {}
    THEN LET got == read_secret(CHOOSE f \in auth.totp_file : TRUE)
         IN IF got.kind = "value" /\ parse_totp_secret(got.v) THEN Value(SeedCode(window)) ELSE Broken
    ELSE CASE VaultSessionOpen(~ auth.no_vault, who, failed) = "absent" -> Nothing
           [] VaultSessionOpen(~ auth.no_vault, who, failed) = "error" -> Broken
           [] OTHER -> CASE who.vault.totp = "seed" -> Value(SeedCode(window))
                         [] who.vault.totp = "malformed" -> Broken
                         [] OTHER -> Nothing

(***************************************************************************)
(* The negotiation: what is done about each answer of DSM.                 *)
(***************************************************************************)
\* Reading the password already tried the vault, and it would not open.
vault_failed(auth, who) ==
    /\ auth.file = {} /\ ~ auth.stdin /\ who.env_password = "missing" /\ ~ auth.no_vault
    /\ who.vault.broken

\* `failed` is the vault session's; `sent` and `refused` are history.
StartLogin(auth, who) ==
    [otp |-> IF who.env_otp = "good" THEN {EnvCode} ELSE {}, prompted |-> FALSE, generated |-> FALSE,
     regenerated |-> FALSE, failed |-> vault_failed(auth, who), sent |-> 0, refused |-> {}]

env_otp_usable(who) == who.env_otp \in {"none", "good"}     \* six digits or nothing

Again(l) == [go |-> "again", l |-> l]
GiveUp(l) == [go |-> "error", l |-> l]

\* The user types a code, or interrupts.
prompt_otp(l, who) ==
    IF who.interrupts THEN [go |-> "cancelled", l |-> l]
    ELSE Again([l EXCEPT !.otp = {TypedCode}, !.prompted = TRUE, !.generated = FALSE])

\* DSM wants a code and none was sent.
code_wanted(l, auth, who, window) ==
    LET got == vault_totp(auth, who, window, l.failed)
        tried == [l EXCEPT !.failed = @ \/ (got.kind = "error" /\ auth.totp_file = {} /\ who.vault.broken)]
    IN CASE got.kind = "value" -> Again([tried EXCEPT !.otp = {got.v}, !.generated = TRUE, !.regenerated = FALSE])
         [] got.kind # "value" /\ who.terminal -> prompt_otp(tried, who)
         [] OTHER -> GiveUp(tried)

replace_if_changed(l, fresh) == {fresh} # l.otp

\* Mutant: the code of the same window is sent again.
generated_code_resent(l, auth, who, window) ==
    LET got == vault_totp(auth, who, window, l.failed)
    IN IF got.kind = "value" THEN Again([l EXCEPT !.otp = {got.v}, !.regenerated = TRUE])
       ELSE IF who.terminal THEN prompt_otp(l, who) ELSE GiveUp(l)

\* The code the seed gave was refused: a new window gives a new code, once;
\* then only the user can help.
generated_code_refused(l, auth, who, window) ==
    LET got == vault_totp(auth, who, window, l.failed)
    IN IF got.kind = "value" /\ replace_if_changed(l, got.v)
       THEN Again([l EXCEPT !.otp = {got.v}, !.regenerated = TRUE])
       ELSE IF who.terminal THEN prompt_otp(l, who) ELSE GiveUp(l)

\* What follows DSM's answer `code` to a login that sent l.otp.
authenticate_with_otp_interaction(l0, code, auth, who, window) ==
    LET l == [l0 EXCEPT !.sent = @ + 1, !.refused = IF code = 404 THEN @ \cup l0.otp ELSE @]
    IN CASE code = 0 -> [go |-> "ok", l |-> l]
         [] code \in {403, 406} /\ l.otp = {} /\ ~ l.prompted -> code_wanted(l, auth, who, window)
         [] code = 404 /\ l.generated /\ ~ l.regenerated -> generated_code_refused(l, auth, who, window)
         [] code = 404 /\ ~ (l.generated /\ ~ l.regenerated) /\ ~ l.prompted /\ who.terminal -> prompt_otp(l, who)
         [] OTHER -> GiveUp(l)

(***************************************************************************)
(* `credentials`: what a person stores, looks at and removes.              *)
(***************************************************************************)
\* The result is [vault, out]; removing both removes the password first, and
\* a vault that cannot be opened changes nothing.
run_with_vault(action, auth, who) ==
    LET v == who.vault
        same(out) == [vault |-> v, out |-> out]
    IN CASE v.broken -> same("error")
         [] ~ v.broken /\ action = "set-password" ->
              IF read_new_password(auth, who).kind = "value" THEN [vault |-> [v EXCEPT !.password = TRUE], out |-> "ok"]
              ELSE same("error")
         [] ~ v.broken /\ action = "set-totp" ->
              LET got == read_totp_provisioning(auth, who)
              IN IF got.kind = "value" /\ parse_totp_secret(got.v) THEN [vault |-> [v EXCEPT !.totp = "seed"], out |-> "ok"]
                 ELSE same("error")
         [] ~ v.broken /\ action = "status" -> same(IF v.totp = "malformed" THEN "error" ELSE "ok")
         [] ~ v.broken /\ action = "remove-password" -> [vault |-> [v EXCEPT !.password = FALSE], out |-> "ok"]
         [] ~ v.broken /\ action = "remove-totp" -> [vault |-> [v EXCEPT !.totp = "none"], out |-> "ok"]
         [] OTHER -> [vault |-> [v EXCEPT !.password = FALSE, !.totp = "none"], out |-> "ok"]
=============================================================================
