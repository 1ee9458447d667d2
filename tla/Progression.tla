---------------------------- MODULE Progression ----------------------------
(***************************************************************************)
(* A player's experience, levels, stats, masteries, skills and gold        *)
(* (silkroad-agent/src/comp/{exp,player,mastery,skill,gold,mod}.rs,        *)
(* game/{exp,mastery,stats,inventory}.rs, chat/command/system.rs), what    *)
(* the client is told of them (sync/system.rs), and the snapshots of them  *)
(* in the database (persistence/{mod,apply}.rs).                           *)
(*                                                                         *)
(* A tick is `play' (the systems of Update, in any order the plugin        *)
(* allows), `sync' (PostUpdate: collection, distribution and saving) and   *)
(* Last, with which the next tick begins.  A snapshot has one database     *)
(* task for each component; they run whenever they like.  Sums wrap, as    *)
(* they do in a release build; a debug build panics.                       *)
(***************************************************************************)
EXTENDS Integers, Sequences, FiniteSets, FiniteSetsExt, Functions

CONSTANTS
    ExpFor,        \* LevelMap: experience that level l takes, for l in 1..Top - 1
    ExpPerSp,      \* EXP_PER_SP, 400 in the code
    Gains,         \* <<experience, skill experience>> of an event
    MasteryPrice,  \* LevelMap: SP for the next level of a mastery, from level 0
    PerLevelCap,   \* MasteryConfig: mastery levels for each level
    Amounts,       \* how many levels of a mastery a client asks for
    SpNamed,       \* how much SP the command `sp' asks for
    Hits,          \* damage of a hit
    Skills,        \* the skills: [group, level, sp, masteryLevel, required]
    Start,         \* the SP, points and gold a character starts with
    HalfWord,      \* 2^31 in the code
    Byte,          \* 2^8 in the code
    GoldAmounts,   \* how much gold is dropped and found
    MaxEvents      \* bound: requests, events and joins of a player's life

ASSUME ProgressionAssumption ==
    /\ ExpPerSp \in Nat \ {0} /\ ExpFor \in Seq(Nat \ {0}) /\ HalfWord \in Nat \ {0}
    /\ Byte \in Nat \ {0} /\ SpNamed \subseteq Nat /\ Hits \subseteq Nat
    /\ Gains \subseteq Nat \X Nat /\ Amounts \subseteq Nat /\ GoldAmounts \subseteq Nat
    /\ PerLevelCap \in Nat /\ \A m \in DOMAIN MasteryPrice : MasteryPrice[m] \in Nat
    /\ IsFiniteSet(Skills) /\ \A s \in Skills : s.sp \in Nat /\ s.level \in Nat
    /\ Start \in [sp : 0..(2 * HalfWord - 1), points : Nat, gold : 0..(HalfWord - 1)]

VARIABLES
    phase,    \* "play", "sync", or "off": the player has left
    ran,      \* the systems that others run after, of those that ran in this tick
    level, exp, spExp, sp,   \* Leveled, Experienced, SP
    stats, points,           \* StatPoints
    hp, maxHp, mp,           \* Health, Mana; max_mana is never read
    mastery,                 \* MasteryKnowledge, one mastery of the race
    skill, learned,          \* SkillBook: group to level, groups learned since the last save
    gold,                    \* GoldPouch
    changed,  \* components changed in this tick, with what their Reset keeps
    client,   \* what the client was last told
    login,    \* Player::character: level, experience, stats and health of the login
    row,      \* the row in the table
    tasks,    \* for every component the snapshots not yet written, oldest first
    saved,    \* what was last saved
    excuses,  \* history: why the row may differ from it, or its columns from each other
    earned,   \* history: all experience and all skill experience of this character
    spent,    \* history: all SP spent by it
    given,    \* history: what the mastery levels cost that it got without paying
    wrapped,  \* history: a sum of experience or SP was more than its type holds
    events    \* how many requests, events and joins there were

tick == <<phase, ran>>
progress == <<level, exp, spExp, sp>>
body == <<stats, points, hp, maxHp, mp>>
bought == <<mastery, skill, learned>>
db == <<row, tasks, saved, excuses>>
history == <<earned, spent, given, wrapped>>
vars == <<tick, progress, body, bought, gold, changed, client, login, db, history, events>>

-----------------------------------------------------------------------------
(* Data *)

Top == Len(ExpFor) + 1
Groups == {s.group : s \in Skills}

\* Experience up to the start of a level, and from the start of level `a' to that of `b'.
ExpUpTo[l \in 1..Top] == IF l = 1 THEN 0 ELSE ExpUpTo[l - 1] + ExpFor[l - 1]
Cost(a, b) == ExpUpTo[b] - ExpUpTo[a]

\* The loop of receive_experience: levels are paid one by one while there is a next
\* one and the experience suffices.  (try_level_up, level_up)
Reached(l, e) == Max({k \in l..Top : Cost(l, k) <= e})

\* Stats::max_health and max_mana: 1.02 to the power of level - 1 (a fraction), by ten
\* times the stat, rounded down.
Growth[l \in 1..Top] == IF l = 1 THEN <<1, 1>> ELSE <<102 * Growth[l - 1][1], 100 * Growth[l - 1][2]>>
MaxBar(stat, l) == (stat * 10 * Growth[l][1]) \div Growth[l][2]

\* To u64, u32 and i32, at the scale of HalfWord.  (GoldChange::apply,
\* GoldPouch::new in handle_join)
AsU64(n) == n % (4 * HalfWord)
AsU32(n) == n % (2 * HalfWord)
AsI32(n) == LET w == n % (2 * HalfWord) IN IF w < HalfWord THEN w ELSE w - 2 * HalfWord

Components == {"level", "exp", "sp", "stats", "hp", "gold", "mastery", "skill"}

\* ChangeProvided::as_change of every tracked component.  The position, and the mana,
\* which nothing but the spawn packet reads, are left out.
Snapshot ==
    [level |-> level, exp |-> <<exp, spExp>>, sp |-> sp, stats |-> <<stats, points>>,
     hp |-> hp, gold |-> gold, mastery |-> mastery, skill |-> skill]

\* The character as it was created.
First ==
    [level |-> 1, exp |-> <<0, 0>>, sp |-> Start.sp, stats |-> <<[STR |-> 20, INT |-> 20], Start.points>>,
     hp |-> MaxBar(20, 1), gold |-> Start.gold, mastery |-> 0, skill |-> [g \in Groups |-> 0]]

\* What a client should know, and is told of its stats when it has loaded.
\* (load_finished, send_character_stats)
Told == [level |-> level, hp |-> hp, sp |-> sp, stats |-> stats, gold |-> gold, mastery |-> mastery]

\* The spawn packet of a join has the health of the row, not that of the player.
send_spawn ==
    [level |-> row.level, hp |-> row.hp, sp |-> row.sp, stats |-> row.stats[1],
     gold |-> AsU64(row.gold), mastery |-> row.mastery]

\* A character as it is created.
Init ==
    /\ phase = "play" /\ ran = {}
    /\ level = 1 /\ exp = 0 /\ spExp = 0 /\ sp = Start.sp
    /\ stats = [STR |-> 20, INT |-> 20] /\ points = Start.points
    /\ maxHp = MaxBar(20, 1) /\ hp = maxHp /\ mp = MaxBar(20, 1)
    /\ mastery = 0 /\ skill = [g \in Groups |-> 0] /\ learned = {}
    /\ gold = Start.gold
    /\ changed = {} /\ client = Told
    /\ login = [level |-> 1, exp |-> 0, stats |-> stats, hp |-> hp]
    /\ row = Snapshot /\ saved = Snapshot
    /\ tasks = [c \in Components |-> << >>]
    /\ excuses = {}
    /\ earned = <<0, ExpPerSp * sp>> /\ spent = 0 /\ given = 0 /\ wrapped = FALSE
    /\ events = 0

-----------------------------------------------------------------------------
(* Update *)

Happens == phase = "play" /\ events < MaxEvents /\ events' = events + 1

\* What is received, and whether a sum leaves its type.
Receives(e, s) ==
    LET gained == (spExp + s) \div ExpPerSp
    IN  /\ earned' = <<earned[1] + e, earned[2] + s>>
        /\ wrapped' = (wrapped \/ exp + e >= 4 * HalfWord \/ spExp + s >= 4 * HalfWord
                                \/ sp + gained >= 2 * HalfWord)

\* A slip: one level for every event.
OneLevelOnly(e, s) ==
    LET total == AsU64(exp + e)
        spTotal == AsU64(spExp + s)
        gained == AsU32(spTotal \div ExpPerSp)
        to == IF level < Top /\ total >= ExpFor[level] THEN level + 1 ELSE level
    IN  /\ "reset_health_mana_on_level" \notin ran
        /\ e + s > 0
        /\ exp' = total - (IF to > level THEN Cost(level, Reached(level, total)) ELSE 0)
        /\ level' = to
        /\ spExp' = spTotal % ExpPerSp
        /\ sp' = AsU32(sp + gained)
        /\ changed' = changed \cup {"exp"}
                      \cup (IF to > level THEN {"level"} ELSE {}) \cup (IF gained > 0 THEN {"sp"} ELSE {})
        /\ Receives(e, s)

\* As if it were not ordered before reset_health_mana_on_level.
InAnyOrder(e, s) ==
    LET total == AsU64(exp + e)
        spTotal == AsU64(spExp + s)
        gained == AsU32(spTotal \div ExpPerSp)
        to == Reached(level, total)
    IN  /\ e + s > 0
        /\ exp' = total - Cost(level, to)
        /\ level' = to
        /\ spExp' = spTotal % ExpPerSp
        /\ sp' = AsU32(sp + gained)
        /\ changed' = changed \cup {"exp"}
                      \cup (IF to > level THEN {"level"} ELSE {}) \cup (IF gained > 0 THEN {"sp"} ELSE {})
        /\ Receives(e, s)

\* Experienced::receive, convert_sp and the levels it is worth.
receive_experience(e, s) ==
    LET total == AsU64(exp + e)
        spTotal == AsU64(spExp + s)
        gained == AsU32(spTotal \div ExpPerSp)
        to == Reached(level, total)
    IN  /\ "reset_health_mana_on_level" \notin ran
        /\ e + s > 0
        /\ exp' = total - Cost(level, to)
        /\ level' = to
        /\ spExp' = spTotal % ExpPerSp
        /\ sp' = AsU32(sp + gained)
        /\ changed' = changed \cup {"exp"}
                      \cup (IF to > level THEN {"level"} ELSE {}) \cup (IF gained > 0 THEN {"sp"} ELSE {})
        /\ Receives(e, s)

Fight ==
    /\ Happens
    /\ \E g \in Gains : receive_experience(g[1], g[2])
    /\ UNCHANGED <<tick, body, bought, gold, client, login, db, spent, given>>

\* The commands `level' and `sp': the level compared and the experience subtracted
\* are those of the login.  For a row whose experience was saved and whose level was
\* not, the subtraction wraps, and so does adding what it gives.
handle_command ==
    /\ Happens
    /\ \/ \E t \in 2..Top :
            /\ t > login.level
            /\ receive_experience(AsU64(Cost(login.level, t) - login.exp), 0)
       \/ \E n \in SpNamed : receive_experience(0, AsU64(n * ExpPerSp))
    /\ UNCHANGED <<tick, body, bought, gold, client, login, db, spent, given>>

\* Health::upgrade raises the maximum and leaves the health, Mana::upgrade fills the
\* mana.  Both record a change.
reset_health_mana_on_level ==
    /\ phase = "play"
    /\ "reset_health_mana_on_level" \notin ran
    /\ "level" \in changed
    /\ ran' = ran \cup {"reset_health_mana_on_level"}
    /\ maxHp' = MaxBar(stats.STR, level)
    /\ mp' = MaxBar(stats.INT, level)
    /\ changed' = changed \cup {"hp", "mp"}
    /\ UNCHANGED <<phase, progress, stats, points, hp, bought, gold, client, login, db, history, events>>

\* StatPoints::spend_str and spend_int.
spend(stat) ==
    /\ stats' = [stats EXCEPT ![stat] = @ + 1]
    /\ points' = points - 1

increase_stats(stat) ==
    /\ Happens
    /\ "update_max_hp_mp_on_stat_change" \notin ran
    /\ points > 0
    /\ spend(stat)
    /\ changed' = changed \cup {"stats"}
    /\ UNCHANGED <<tick, progress, hp, maxHp, mp, bought, gold, client, login, db, history>>

\* Health::increase_max and Mana::increase_max; the latter fills the mana and records
\* no change.
update_max_hp_mp_on_stat_change ==
    /\ phase = "play"
    /\ "update_max_hp_mp_on_stat_change" \notin ran
    /\ "stats" \in changed
    /\ ran' = ran \cup {"update_max_hp_mp_on_stat_change"}
    /\ maxHp' = MaxBar(stats.STR, level)
    /\ mp' = MaxBar(stats.INT, level)
    /\ UNCHANGED <<phase, progress, stats, points, hp, bought, gold, changed, client, login, db, history, events>>

PriceOf(m) == IF m \in DOMAIN MasteryPrice THEN MasteryPrice[m] ELSE 0

\* SP for the levels of a mastery up to one, and for a set of skills.
SpUpTo[m \in Nat] == IF m = 0 THEN 0 ELSE SpUpTo[m - 1] + PriceOf(m - 1)
SpOf[S \in SUBSET Skills] == IF S = {} THEN 0 ELSE LET s == CHOOSE s \in S : TRUE IN s.sp + SpOf[S \ {s}]

\* What the masteries and skills known cost, each level of a skill bought after the
\* ones below it.
Worth(m, known) == SpUpTo[m] + SpOf[{s \in Skills : s.level <= known[s.group]}]

\* What the levels from `m' to `n' cost but for the first.
Unpaid(m, n) == IF n > m + 1 THEN SpUpTo[n] - SpUpTo[m + 1] ELSE 0

\* A slip: the cap is that of the levels before the last.
CapPassed(amount) ==
    /\ Happens
    /\ mastery <= level * PerLevelCap
    /\ sp >= PriceOf(mastery)
    /\ sp' = sp - PriceOf(mastery)
    /\ spent' = spent + PriceOf(mastery)
    /\ mastery' = (mastery + amount) % Byte
    /\ given' = given + Unpaid(mastery, mastery')
    /\ changed' = changed \cup {"mastery"} \cup (IF PriceOf(mastery) > 0 THEN {"sp"} ELSE {})
    /\ UNCHANGED <<tick, level, exp, spExp, body, skill, learned, gold, client, login, db, earned, wrapped>>

\* The price is that of one level, the client says how many it gets.
handle_mastery_levelup(amount) ==
    /\ Happens
    /\ mastery < level * PerLevelCap
    /\ sp >= PriceOf(mastery)
    /\ sp' = sp - PriceOf(mastery)
    /\ spent' = spent + PriceOf(mastery)
    /\ mastery' = (mastery + amount) % Byte
    /\ given' = given + Unpaid(mastery, mastery')
    /\ changed' = changed \cup {"mastery"} \cup (IF PriceOf(mastery) > 0 THEN {"sp"} ELSE {})
    /\ UNCHANGED <<tick, level, exp, spExp, body, skill, learned, gold, client, login, db, earned, wrapped>>

has_required_skills_for(s) ==
    s.required.group \in Groups => skill[s.required.group] >= s.required.level

\* The skill replaces the one known of its group, whichever has the higher level.
learn_skill(s) ==
    /\ Happens
    /\ s.sp <= sp
    /\ s.masteryLevel <= mastery
    /\ has_required_skills_for(s)
    /\ sp' = sp - s.sp
    /\ spent' = spent + s.sp
    /\ skill' = [skill EXCEPT ![s.group] = s.level]
    /\ learned' = learned \cup {s.group}
    /\ changed' = changed \cup {"sp"}
    /\ UNCHANGED <<tick, level, exp, spExp, body, mastery, gold, client, login, db, earned, given, wrapped>>

\* Health::reduce, of the player who is hit.  (handle_damage)
reduce(amount) ==
    /\ Happens
    /\ hp > 0
    /\ hp' = IF amount < hp THEN hp - amount ELSE 0
    /\ changed' = changed \cup {"hp"}
    /\ UNCHANGED <<tick, progress, stats, points, maxHp, mp, bought, gold, client, login, db, history>>

handle_player_drop_gold(amount) ==
    /\ Happens
    /\ amount \in 1..gold
    /\ gold' = gold - amount
    /\ changed' = changed \cup {"gold"}
    /\ UNCHANGED <<tick, progress, body, bought, client, login, db, history>>

gain_gold(amount) ==
    /\ Happens
    /\ gold' = Min({gold + amount, 4 * HalfWord - 1})
    /\ changed' = changed \cup {"gold"}
    /\ UNCHANGED <<tick, progress, body, bought, client, login, db, history>>

UpdateDone ==
    /\ "level" \in changed => "reset_health_mana_on_level" \in ran
    /\ "stats" \in changed => "update_max_hp_mp_on_stat_change" \in ran

-----------------------------------------------------------------------------
(* PostUpdate and Last *)

\* collect_gold_changes and collect_mastery_changes.
CollectedPurse(known) ==
    [known EXCEPT !.gold = IF "gold" \in changed THEN gold ELSE @,
                  !.mastery = IF "mastery" \in changed THEN mastery ELSE @]

\* A slip: no level is told with the experience.
ForgetLevel(known) ==
    [known EXCEPT !.hp = IF "hp" \in changed THEN hp ELSE @,
                  !.sp = IF "sp" \in changed THEN sp ELSE @]

\* system_collect_bars_update, system_collect_sp_update, system_collect_exp_update and
\* system_collect_level_up.
Collected(known) ==
    [known EXCEPT !.hp = IF "hp" \in changed THEN hp ELSE @,
                  !.sp = IF "sp" \in changed THEN sp ELSE @,
                  !.level = IF "level" \in changed THEN level ELSE @]

\* The stats told: a level up tells those of the login, and which of the two messages
\* of a tick comes last is open.  (system_collect_level_up, collect_stat_changes)
CollectedStats ==
    IF {"level", "stats"} \cap changed = {} THEN {client.stats}
    ELSE {s \in {stats, login.stats} :
            \/ "stats" \in changed /\ s = stats
            \/ "level" \in changed /\ s = login.stats}

\* The skills learned since the last save, each at its last level.  (SkillBook::changes,
\* LearnedSkill::merge)
LearnedSkills == Restrict(skill, learned)

\* A task for every component with all of it, and one for the skills learned since the
\* last save.  A snapshot of what the row has already would change nothing.
\* (apply_changes_periodically, apply_changes_combined, apply_changes)
Enqueue ==
    LET known == [Snapshot EXCEPT !.skill = LearnedSkills]
        new(c) == IF c = "skill" THEN learned # {} ELSE tasks[c] # << >> \/ row[c] # known[c]
    IN  /\ saved' = Snapshot
        /\ tasks' = [c \in Components |-> IF new(c) THEN Append(tasks[c], known[c]) ELSE tasks[c]]
        /\ learned' = {}
        /\ UNCHANGED <<row, excuses>>

\* Few saves are under way at a time.
MaxWaiting == 2
MaySave == \A c \in Components : Len(tasks[c]) < MaxWaiting

\* apply_changes_periodically runs when its timer says so.
EndOfUpdate ==
    /\ phase = "play" /\ UpdateDone
    /\ phase' = "sync"
    /\ \E s \in CollectedStats : client' = [CollectedPurse(Collected(client)) EXCEPT !.stats = s]
    /\ \/ MaySave /\ Enqueue
       \/ UNCHANGED <<db, learned>>
    /\ UNCHANGED <<ran, progress, body, mastery, skill, gold, changed, login, history, events>>

\* reset_component of Last.
Reset ==
    /\ phase = "sync"
    /\ phase' = "play"
    /\ changed' = {} /\ ran' = {}
    /\ UNCHANGED <<progress, body, bought, gold, client, login, db, history, events>>

\* A logout saves in its tick (apply_changes_combined); a lost connection takes the
\* player away before it is saved (net.rs).
Leave(orderly) ==
    /\ phase = "sync"
    /\ phase' = "off"
    /\ IF orderly THEN MaySave /\ Enqueue ELSE UNCHANGED db /\ learned' = {}
    /\ changed' = {} /\ ran' = {}
    /\ UNCHANGED <<progress, body, mastery, skill, gold, client, login, history, events>>

-----------------------------------------------------------------------------
(* The database *)

Settled == \A c \in Components : tasks[c] = << >>

\* The first reason why the row may differ from what was saved is enough to know.
Excused(why) == IF excuses = {} THEN why ELSE excuses

\* The columns are disjoint and a tick does not read them, so that the components may
\* be written between ticks and, but for a player about to join, one after the other.
Writing == IF phase = "off" THEN {c \in Components : tasks[c] # << >>}
           ELSE {CHOOSE c \in Components : tasks[c] # << >>}

Remove(s, i) == [j \in 1..(Len(s) - 1) |-> IF j < i THEN s[j] ELSE s[j + 1]]

\* Skills replace those of their group.
Over(v, known) == [g \in Groups |-> IF g \in DOMAIN v THEN v[g] ELSE known[g]]

\* A slip: the points are left out of the statement.
PointsNotStored(c, v) ==
    CASE c = "gold" -> AsI32(v)
      [] c = "skill" -> Over(v, row.skill)
      [] c = "stats" -> <<v[1], row.stats[2]>>
      [] OTHER -> v

\* What the columns of `c' hold once `v' is written: gold is cut to 32 bits, skills
\* and masteries replace those of their group.
Stored(c, v) ==
    CASE c = "gold" -> AsI32(v)
      [] c = "skill" -> Over(v, row.skill)
      [] OTHER -> v

\* A task of component `c' writes its columns.  The tasks of two saves may end in the
\* wrong order.  (ApplyToDatabase::apply)
Apply(c, i) ==
    /\ phase # "play"
    /\ row' = [row EXCEPT ![c] = Stored(c, tasks[c][i])]
    /\ tasks' = [tasks EXCEPT ![c] = Remove(@, i)]
    /\ excuses' = Excused(IF i > 1 THEN {"overtaken"} ELSE {})
    /\ UNCHANGED <<tick, progress, body, bought, gold, changed, client, login, saved, history, events>>

\* The statement fails and the error is logged.  The next save has a snapshot of
\* everything but the skills again.  Bound: one error is enough to tear a row.
Fail(c, i) ==
    /\ phase # "play" /\ excuses = {}
    /\ tasks' = [tasks EXCEPT ![c] = Remove(@, i)]
    /\ excuses' = {"error"}
    /\ UNCHANGED <<tick, progress, body, bought, gold, changed, client, login, row, saved, history, events>>

\* Another connection that plays the same character, and does nothing, saves what it
\* joined with: everything as it was at first.  Bound: one column is enough to tear a row.
SaveElsewhere(c) ==
    /\ phase = "off" /\ excuses = {}
    /\ row' = [row EXCEPT ![c] = First[c]]
    /\ excuses' = {"twice"}
    /\ UNCHANGED <<tick, progress, body, bought, gold, changed, client, login, tasks, saved, history, events>>

\* The player comes back with what the row has, unhurt; its history starts with what
\* that is worth.  Nothing waits for the tasks of the last session: the row may have
\* some of them, and the others write it later.  The list a client joins from may be
\* older than the row; the step is then where it was read.
\* (handle_join, Player::from_db_data, PlayerBundle::new)
Join ==
    /\ phase = "off" /\ events < MaxEvents /\ events' = events + 1
    /\ phase' = "play"
    /\ level' = row.level
    /\ exp' = row.exp[1] /\ spExp' = row.exp[2]
    /\ sp' = row.sp
    /\ stats' = row.stats[1] /\ points' = row.stats[2]
    /\ maxHp' = MaxBar(stats'.STR, level') /\ hp' = maxHp'
    /\ mp' = MaxBar(stats'.INT, level')
    /\ mastery' = row.mastery /\ skill' = row.skill
    /\ gold' = AsU64(row.gold)
    /\ client' = send_spawn
    /\ login' = [level |-> level', exp |-> exp', stats |-> stats', hp |-> row.hp]
    /\ saved' = [row EXCEPT !.gold = gold']
    /\ spent' = Worth(mastery', skill') /\ given' = 0 /\ wrapped' = FALSE
    /\ earned' = <<Cost(1, level') + exp', ExpPerSp * (sp' + spent') + spExp'>>
    /\ excuses' = Excused(IF Settled THEN {} ELSE {"reload"})
    /\ UNCHANGED <<ran, learned, changed, row, tasks>>

-----------------------------------------------------------------------------

Next ==
    \/ Fight \/ handle_command \/ reset_health_mana_on_level \/ update_max_hp_mp_on_stat_change
    \/ \E s \in {"STR", "INT"} : increase_stats(s)
    \/ \E a \in Amounts : handle_mastery_levelup(a)
    \/ \E s \in Skills : learn_skill(s)
    \/ \E a \in Hits : reduce(a)
    \/ \E a \in GoldAmounts : handle_player_drop_gold(a) \/ gain_gold(a)
    \/ EndOfUpdate \/ Reset \/ Join
    \/ \E orderly \in BOOLEAN : Leave(orderly)
    \/ ~Settled /\ \E c \in Writing : \E i \in DOMAIN tasks[c] : Apply(c, i) \/ Fail(c, i)
    \/ \E c \in Components : SaveElsewhere(c)

Spec == Init /\ [][Next]_vars

-----------------------------------------------------------------------------
(* Properties *)

\* Neither the levels an event is worth, nor the conversion into SP, nor what is
\* bought with SP makes or loses experience, as long as no sum is more than its type
\* holds; the experience is right even then, but for what a u64 cannot hold.  Unless the
\* row it came from was torn, no level's worth of it is left over.
\* (receive_experience, convert_sp, SP::gain, SP::spend)
ExperienceConserved ==
    /\ ~wrapped => earned = <<Cost(1, level) + exp, ExpPerSp * (sp + spent) + spExp>>
    /\ AsU64(earned[1]) = AsU64(Cost(1, level) + exp)
    /\ level < Top /\ excuses = {} => exp < ExpFor[level]
    /\ spExp < ExpPerSp

\* What a player knows was paid for, but for the levels of a mastery that a request
\* names beyond the one it pays; and its masteries pass what its level allows by fewer
\* levels than a request names, whichever requests meet in a tick.
\* (handle_mastery_levelup, learn_skill)
PaidFor ==
    /\ Worth(mastery, skill) <= spent + given
    /\ excuses = {} => \E a \in Amounts \cup {1} : mastery < level * PerLevelCap + a

\* Health never exceeds its maximum, so that the subtraction in Health::upgrade does
\* not wrap, and when a tick's systems have run, in whatever order, both bars have the
\* maximum of the level and the stats.
BarsFollow ==
    /\ hp <= maxHp /\ maxHp <= MaxBar(stats.STR, level) /\ mp <= MaxBar(stats.INT, level)
    /\ phase = "sync" => maxHp = MaxBar(stats.STR, level) /\ mp = MaxBar(stats.INT, level)

\* After the distribution of a tick the client knows what the player has, although
\* it is told of changes only: but for the health it was saved with, which it shows
\* until that changes, and the stats of its login, which a level up tells again.
\* (send_spawn, system_collect_level_up)
ClientInformed ==
    phase = "sync" =>
        /\ client = [Told EXCEPT !.hp = client.hp, !.stats = client.stats]
        /\ client.hp # hp => client.hp = login.hp /\ hp = MaxBar(login.stats.STR, login.level)
        /\ client.stats # stats => client.stats = login.stats /\ level > login.level

\* When all tasks are done, the row has what was last saved (gold as far as its column
\* is used), over any number of sessions; unless a task failed, overtook another, was
\* still to run when the player joined again, or was that of another connection.
RowAsSaved ==
    Settled /\ excuses = {} => row = [saved EXCEPT !.gold = AsI32(@)]
=============================================================================
