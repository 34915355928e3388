---------------------------- MODULE WorktreeEnv ----------------------------
(***************************************************************************)
(* The environment of a worktree (tauri_commands/env.rs,                    *)
(* infra/env_template.rs, dotenv_render.rs, docker_cleanup.rs), on top of   *)
(* the workspace: its docker compose project, its generated .env.local, and *)
(* the cleanup at boot that tears down the compose projects of worktrees    *)
(* that are gone.                                                           *)
(*                                                                         *)
(* Every worktree is taken to have a compose file.  What the user has in    *)
(* .env and in the template is any of a few files at each render.  Tearing  *)
(* down is one step per compose project and may fail.                       *)
(***************************************************************************)
EXTENDS Workspace, Dotenv

CONSTANTS
    Window,         \* milliseconds the first eight digits of an id stand for: 2^16
    BaseFiles,      \* what .env may hold
    Templates       \* what .oxyris/.env.template may hold

\* A file is a sequence of lines.
ASSUME EnvAssumption ==
    \A lines \in BaseFiles \cup Templates : lines \in Seq({lines[i] : i \in DOMAIN lines})

VARIABLES
    stacks,     \* the compose projects that exist, by the short id in their name
    dot,        \* .env.local at each place: None, the user's, or a generated one
    prune       \* the cleanup of this boot

envvars == <<wvars, stacks, dot, prune>>

\* short_id and docker_project_name: the first eight digits of the id, which a UUID v7
\* starts with its time stamp, forty-eight bits of milliseconds.
ShortId(i) == i \div Window
\* port_offset stands for the variables of a worktree; all else depends on the id alike.
EnvVars(i) == [OXYRIS_WORKTREE_SHORT |-> ToString(ShortId(i))]

ByUser == [by |-> "user", base |-> <<>>, template |-> <<>>, lines |-> <<>>]
Rendered(i, base, template) ==
    [by |-> "oxyris", base |-> Substituted(base, EnvVars(i)),
     template |-> Substituted(template, EnvVars(i)),
     lines |-> Substituted(Merged(base, template), EnvVars(i))]

NoPrune == [at |-> "boot", saw |-> {}, found |-> {}]
EnvInit ==
    /\ WInit
    /\ stacks = {} /\ dot = [place \in Places |-> None]
    /\ prune = NoPrune

Listed == {i \in Worktrees : IsShown(i) /\ IsShown(row[i].project)}
EnvOps == {"env_up", "env_down", "env_render"}

\* env_up, env_down and env_dotenv_render: resolve_worktree, then files or docker.
EnvBegin(w) ==
    /\ \E i \in Listed, op \in EnvOps :
          Begin(w, Call(op, i, None, row[i].place, IF op = "env_down" THEN "compose" ELSE "render"))
    /\ UNCHANGED <<store, row, disk, torn, stacks, dot, prune>>

AfterRender(w) ==
    IF calls[w].op = "env_up" THEN Move(w, "compose") ELSE calls' = [calls EXCEPT ![w] = NoCall]
\* render_for_worktree up to its write: no template, or a file without the header.
EnvSkip(w) ==
    /\ calls[w].at = "render" /\ AfterRender(w)
    /\ UNCHANGED <<store, row, disk, torn, spent, stacks, dot, prune>>

EnvRead(w) ==
    /\ calls[w].at = "render" /\ calls[w].val \in trees
    /\ dot[calls[w].val] # ByUser
    /\ \E base \in BaseFiles, template \in Templates :
          calls' = [calls EXCEPT ![w].at = "write", ![w].todo = {<<base, template>>}]
    /\ UNCHANGED <<store, row, disk, torn, spent, stacks, dot, prune>>
\* The write of what was read makes the directory again when it is gone by now.
EnvWrite(w) ==
    LET place == calls[w].val IN
    /\ calls[w].at = "write"
    /\ \E sources \in calls[w].todo :
          dot' = [dot EXCEPT ![place] = Rendered(calls[w].agg, sources[1], sources[2])]
    /\ trees' = trees \cup {place} /\ AfterRender(w)
    /\ UNCHANGED <<store, row, admin, torn, spent, stacks, prune>>
\* spawn_compose_command resolves the worktree again.
EnvCompose(w) ==
    LET i == calls[w].agg IN
    /\ calls[w].at = "compose"
    /\ stacks' = IF i \notin Listed THEN stacks
                 ELSE IF calls[w].op = "env_up" THEN stacks \cup {ShortId(i)}
                 ELSE stacks \ {ShortId(i)}
    /\ calls' = [calls EXCEPT ![w] = NoCall]
    /\ UNCHANGED <<store, row, disk, torn, spent, dot, prune>>

HandWritesDot ==
    /\ ByHand /\ \E place \in trees : dot' = [dot EXCEPT ![place] = ByUser]
    /\ UNCHANGED <<disk, stacks, prune>>
-----------------------------------------------------------------------------
(* prune_orphans_for_all, once per boot.                                      *)

\* The worktrees of each project are read, and a project whose list fails is skipped;
\* then docker is asked for its projects; with no project there is no environment to ask.
PruneReads ==
    /\ prune.at = "boot"
    /\ \E read \in SUBSET Projects :
          prune' = [prune EXCEPT !.at = "ls", !.saw = {i \in Listed : row[i].project \in read}]
    /\ UNCHANGED <<wvars, stacks, dot>>
PruneAsks ==
    /\ prune.at = "ls"
    /\ prune' = [prune EXCEPT !.at = "prune",
                     !.found = IF \E p \in Projects : IsShown(p) THEN stacks ELSE {}]
    /\ UNCHANGED <<wvars, stacks, dot>>

IsOrphan(short) == short \notin {ShortId(i) : i \in prune.saw}
PruneNext ==
    /\ prune.at = "prune"
    /\ \E short \in prune.found :
          /\ prune' = [prune EXCEPT !.found = @ \ {short}]
          /\ stacks' \in IF IsOrphan(short) THEN {stacks, stacks \ {short}} ELSE {stacks}
    /\ UNCHANGED <<wvars, dot>>

\* A step of the workspace: what was in a directory that goes, goes with it.
WorkspaceStep ==
    /\ WorkspaceNext
    /\ dot' = [place \in Places |-> IF place \in trees' THEN dot[place] ELSE None]
    /\ UNCHANGED <<stacks, prune>>
\* Docker's containers outlive the application.
EnvRestart == Restart /\ prune' = NoPrune /\ UNCHANGED <<stacks, dot>>

EnvNext ==
    \/ WorkspaceStep \/ EnvRestart \/ HandWritesDot
    \/ \E w \in Writers : EnvBegin(w) \/ EnvSkip(w) \/ EnvRead(w) \/ EnvWrite(w) \/ EnvCompose(w)
    \/ PruneReads \/ PruneAsks \/ PruneNext
EnvSpec == EnvInit /\ [][EnvNext]_envvars
-----------------------------------------------------------------------------
(* Properties.                                                                *)

\* A generated file gives each key of the template the template's value ("template-wins
\* semantics") unless .env assigns that key twice, and each other key of .env its own.
RenderedTemplateWins ==
    \A place \in Places :
        LET f == dot[place] IN
        f \notin {None, ByUser} =>
            /\ \A i \in DOMAIN f.template : LET key == f.template[i].key IN
                 Once(f.base, key) => Effective(f.lines, key) = Effective(f.template, key)
            /\ \A i \in DOMAIN f.base : LET key == f.base[i].key IN
                 ~Defines(f.template, key) => Effective(f.lines, key) = Effective(f.base, key)

\* "overlay wins on key conflict" (merge).  (It does not hold of a key that .env assigns twice:
\* the template's value goes to the first of the two lines, and the second counts.)
TemplateAlwaysWins ==
    \A place \in Places :
        LET f == dot[place] IN
        f \notin {None, ByUser} =>
            \A i \in DOMAIN f.template : LET key == f.template[i].key IN
                Effective(f.lines, key) = Effective(f.template, key)

\* The cleanup spares the stack of every worktree there is.  (It does not hold: one made
\* and brought up since the worktrees were read is taken for an orphan, and so is every
\* one of a project whose list failed.)
PruneSparesAll ==
    [][prune' # prune =>
           \A i \in Listed : ShortId(i) \in stacks => ShortId(i) \in stacks']_<<stacks, prune>>

\* A worktree's stack is its own: no two worktrees have one compose project between them.
StacksAreIsolated == \A i, j \in Listed : ShortId(i) = ShortId(j) /\ ShortId(i) \in stacks => i = j

\* "Existing `.env.local` files without our header are treated as user-owned and never
\* overwritten."  (It does not hold: the header is read long before the write.)
UserFileIsKept ==
    [][\A w \in Writers :
         calls[w].at = "write" /\ calls'[w] # calls[w] /\ dot[calls[w].val] = ByUser =>
             dot'[calls[w].val] = ByUser]_envvars
==============================================================================
