------------------------ MODULE ReadingTrackerProofs ------------------------
(***************************************************************************)
(* Theorems about ReadingTracker, for any operations, books at Hardcover   *)
(* and bounds: the read count, what Hardcover is told, the link, that a    *)
(* push leaves a book read or given up alone, and that a change of status  *)
(* does all of what it stands for.                                         *)
(***************************************************************************)
EXTENDS ReadingTracker, SequenceTheorems, TLAPS

(***************************************************************************)
(* The steps an operation has left.  A push is a whole, a status told is   *)
(* cached next, a link saved is completed next, and a book or a link is    *)
(* saved first or not at all.                                              *)
(***************************************************************************)
After == [initial |-> "push", push |-> "adopt", adopt |-> "resolve", resolve |-> "advance",
          advance |-> "send", status |-> "cache", link |-> "editions", editions |-> "own"]
PushSteps == {"adopt", "resolve", "advance", "send"}
Pushes == {"initial", "push", "adopt", "resolve", "advance"}
Leads == Pushes \cup {"status", "link", "editions"}
Follows == PushSteps \cup {"cache", "editions", "own"}
Firsts == {"save", "link"}

Program(s) ==
    /\ s \in Seq(Steps)
    /\ \A k \in 1 .. Len(s) :
         /\ s[k] \in Leads => k < Len(s) /\ s[k + 1] = After[s[k]]
         /\ k # 1 /\ s[k] \in Follows => s[k - 1] \in Leads
         /\ s[k] \in Firsts => k = 1

Left(s) == {s[k] : k \in 1 .. Len(s)}
First(r, step) == r.todo # << >> /\ Head(r.todo) = step

(***************************************************************************)
(* What an operation has loaded, counted and earned, by where it is.       *)
(***************************************************************************)
ForBook == {"link", "own", "editions", "want", "send_dates", "take_dates"}
Loaded(r) ==
    /\ Left(r.todo) \cap {"save", "status", "cache"} # {} => r.to \in Statuses
    /\ Left(r.todo) \cap ForBook # {} => r.d.hc \in HcBooks
    /\ \A step \in PushSteps : First(r, step) => r.d.hc \in HcBooks
    /\ \A step \in PushSteps \ {"adopt"} : First(r, step) => r.d.user \in HcBooks
    /\ "initial" \in Left(r.todo) => Left(r.todo) \cap {"save", "dates", "check", "mark"} = {}
    /\ Left(r.todo) \cap {"check", "mark"} # {} => r.pct > 99
    /\ First(r, "save") /\ r.to = "completed" => r.b.status # "completed"

\* The copy of the book is one that the count of the completions covers, and is behind
\* it once the book was completed.
Counted(r) ==
    /\ r.b.count <= 1 + completions
    /\ r.todo # << >> /\ r.b.status # "completed" /\ book.status = "completed"
          => r.b.count <= completions
    /\ ~First(r, "save") /\ "dates" \in Left(r.todo) /\ r.to = "completed" => r.b.count <= completions

\* Only before its save is an operation about to finish a book that nobody finished.
EarnedBy(r) ==
    /\ r.b.status = "completed" => earned
    /\ First(r, "save") /\ r.pct > 99 => earned \/ r.to = "completed"
    /\ r.todo # << >> /\ ~First(r, "save") /\ ~First(r, "check") /\ (r.pct > 99 \/ r.to = "completed")
          => earned

WholeLink(d) ==
    /\ d.edition \in {None, "none", d.hc}
    /\ d.user \in {None, d.hc}
    /\ d.read # 0 => d.user # None

Fits(r) ==
    /\ Program(r.todo) /\ Loaded(r) /\ Counted(r) /\ EarnedBy(r)
    /\ ~recovered => WholeLink(r.d)

Stored ==
    /\ book.count <= 1 + completions
    /\ book.status = "completed" => earned
    /\ progress > 99 => earned
    /\ EarnedRead
    /\ ~recovered => WholeLink(details)

Inv == TypeOK /\ Stored /\ \A o \in Ops : Fits(op[o])

-----------------------------------------------------------------------------
(***************************************************************************)
(* Programs and their parts.                                               *)
(***************************************************************************)
\* What may follow another program.
Block(s) == Program(s) /\ Left(s) \cap Firsts = {} /\ (s # << >> => s[1] \notin Follows)

LEMMA NoSteps ==
  Block(<< >>) /\ Left(<< >>) = {}
  BY DEF Block, Program, Left

LEMMA OneStep ==
  ASSUME NEW step \in Steps \ Leads
  PROVE  /\ Program(<<step>>) /\ Left(<<step>>) = {step} /\ <<step>>[1] = step /\ <<step>> # << >>
         /\ step \notin Firsts \cup Follows => Block(<<step>>)
<1>1. <<step>> \in Seq(Steps) /\ Len(<<step>>) = 1 /\ <<step>>[1] = step
  OBVIOUS
<1>2. Left(<<step>>) = {step}
  BY <1>1 DEF Left
<1>3. Program(<<step>>)
  BY <1>1 DEF Program
<1> QED
  BY <1>1, <1>2, <1>3 DEF Block

LEMMA Joined ==
  ASSUME NEW s, NEW t, Program(s), Block(t)
  PROVE  /\ Program(s \o t) /\ Left(s \o t) = Left(s) \cup Left(t)
         /\ s # << >> => s \o t # << >> /\ (s \o t)[1] = s[1]
         /\ s = << >> => s \o t = t
         /\ Block(s) => Block(s \o t)
<1> DEFINE c == s \o t
<1>1. s \in Seq(Steps) /\ t \in Seq(Steps) /\ Len(s) \in Nat /\ Len(t) \in Nat
  BY DEF Block, Program
<1>2. /\ c \in Seq(Steps) /\ Len(c) = Len(s) + Len(t)
      /\ \A k \in 1 .. Len(c) : c[k] = IF k <= Len(s) THEN s[k] ELSE t[k - Len(s)]
  BY <1>1, ConcatProperties
<1> HIDE DEF c
<1>3. \A k \in 1 .. Len(s) : k \in 1 .. Len(c) /\ c[k] = s[k]
  BY <1>1, <1>2
<1>4. \A k \in 1 .. Len(t) : k + Len(s) \in 1 .. Len(c) /\ c[k + Len(s)] = t[k]
  <2> SUFFICES ASSUME NEW k \in 1 .. Len(t)
               PROVE  k + Len(s) \in 1 .. Len(c) /\ c[k + Len(s)] = t[k]
    OBVIOUS
  <2>1. k + Len(s) \in 1 .. Len(c) /\ ~(k + Len(s) <= Len(s)) /\ k + Len(s) - Len(s) = k
    BY <1>1, <1>2
  <2> QED
    BY <1>2, <2>1
<1>5. \A k \in 1 .. Len(c) : k \in 1 .. Len(s) \/ \E j \in 1 .. Len(t) : k = j + Len(s)
  <2> SUFFICES ASSUME NEW k \in 1 .. Len(c), k \notin 1 .. Len(s)
               PROVE  \E j \in 1 .. Len(t) : k = j + Len(s)
    OBVIOUS
  <2>1. k - Len(s) \in 1 .. Len(t) /\ k = (k - Len(s)) + Len(s)
    BY <1>1, <1>2
  <2> QED
    BY <2>1
<1>6. Left(c) = Left(s) \cup Left(t)
  <2>1. \A x \in Left(s) : x \in Left(c)
    BY <1>3 DEF Left
  <2>2. \A x \in Left(t) : x \in Left(c)
    BY <1>4 DEF Left
  <2>3. \A x \in Left(c) : x \in Left(s) \/ x \in Left(t)
    <3> SUFFICES ASSUME NEW k \in 1 .. Len(c)
                 PROVE  c[k] \in Left(s) \/ c[k] \in Left(t)
      BY DEF Left
    <3>1. CASE k \in 1 .. Len(s)
      BY <1>3, <3>1 DEF Left
    <3>2. ASSUME NEW j \in 1 .. Len(t), k = j + Len(s)
          PROVE  c[k] \in Left(t)
      BY <1>4, <3>2 DEF Left
    <3> QED
      BY <1>5, <3>1, <3>2
  <2> QED
    BY <2>1, <2>2, <2>3
<1>7. Program(c)
  <2> SUFFICES ASSUME NEW k \in 1 .. Len(c)
               PROVE  /\ c[k] \in Leads => k < Len(c) /\ c[k + 1] = After[c[k]]
                      /\ k # 1 /\ c[k] \in Follows => c[k - 1] \in Leads
                      /\ c[k] \in Firsts => k = 1
    BY <1>2 DEF Program
  <2>1. CASE k \in 1 .. Len(s)
    <3>1. c[k] = s[k] /\ k <= Len(c)
      BY <1>3, <2>1
    <3>2. s[k] \in Leads => k < Len(s) /\ s[k + 1] = After[s[k]]
      BY <2>1 DEF Program
    <3>3. k < Len(s) => c[k + 1] = s[k + 1] /\ k < Len(c)
      BY <1>1, <1>2, <1>3, <2>1
    <3>4. k # 1 => c[k - 1] = s[k - 1]
      BY <1>1, <1>3, <2>1
    <3> QED
      BY <2>1, <3>1, <3>2, <3>3, <3>4 DEF Program
  <2>2. ASSUME NEW j \in 1 .. Len(t), k = j + Len(s)
        PROVE  /\ c[k] \in Leads => k < Len(c) /\ c[k + 1] = After[c[k]]
               /\ k # 1 /\ c[k] \in Follows => c[k - 1] \in Leads
               /\ c[k] \in Firsts => k = 1
    <3>1. c[k] = t[j]
      BY <1>4, <2>2
    <3>2. t[j] \in Leads => j < Len(t) /\ t[j + 1] = After[t[j]]
      BY DEF Block, Program
    <3>3. j < Len(t) => k < Len(c) /\ c[k + 1] = t[j + 1]
      <4> SUFFICES ASSUME j < Len(t)
                   PROVE  k < Len(c) /\ c[k + 1] = t[j + 1]
        OBVIOUS
      <4>1. j + 1 \in 1 .. Len(t) /\ k + 1 = (j + 1) + Len(s) /\ k < Len(c)
        BY <1>1, <1>2, <2>2
      <4> QED
        BY <1>4, <4>1
    <3>4. j # 1 => c[k - 1] = t[j - 1]
      <4> SUFFICES ASSUME j # 1
                   PROVE  c[k - 1] = t[j - 1]
        OBVIOUS
      <4>1. j - 1 \in 1 .. Len(t) /\ k - 1 = (j - 1) + Len(s)
        BY <1>1, <2>2
      <4> QED
        BY <1>4, <4>1
    <3>5. j # 1 /\ t[j] \in Follows => t[j - 1] \in Leads
      BY DEF Block, Program
    <3>6. t # << >> /\ (j = 1 => t[j] \notin Follows) /\ t[j] \notin Firsts
      BY <1>1 DEF Block, Left
    <3> QED
      BY <3>1, <3>2, <3>3, <3>4, <3>5, <3>6
  <2> QED
    BY <1>5, <2>1, <2>2
<1>8. s # << >> => c # << >> /\ c[1] = s[1]
  BY <1>1, <1>2, <1>3
<1>9. s = << >> => c = t
  BY <1>1 DEF c
<1> QED
  BY <1>6, <1>7, <1>8, <1>9 DEF Block, c

LEMMA Known ==
  /\ {"probe", "check", "verify", "save", "journal", "dates", "cache", "unlist", "grimmory", "own",
      "fill", "record", "mark", "finish", "tbr_dates", "tbr_done", "want", "send_dates", "take_dates",
      "import", "set"} \subseteq (Steps \ Leads) \ PushSteps
  /\ {"probe", "check", "verify", "journal", "dates", "unlist", "grimmory", "fill", "record", "mark", "finish",
      "tbr_dates", "tbr_done", "want", "send_dates", "take_dates", "import", "set"}
        \cap (Follows \cup Firsts) = {}
  /\ Leads \cup Follows \subseteq Steps /\ PushSteps \subseteq Follows /\ Pushes \subseteq Leads
  /\ "push" \notin Follows /\ "save" \notin Follows
  BY DEF Steps, Pushes, PushSteps, Leads, Follows, Firsts

LEMMA PushFits ==
  Block(PushCourse) /\ Left(PushCourse) = {"push"} \cup PushSteps /\ PushCourse # << >> /\ PushCourse[1] = "push"
<1>1. /\ PushCourse \in Seq(Steps) /\ Len(PushCourse) = 5 /\ PushCourse # << >>
      /\ PushCourse[1] = "push" /\ PushCourse[2] = "adopt" /\ PushCourse[3] = "resolve"
      /\ PushCourse[4] = "advance" /\ PushCourse[5] = "send"
  BY Known DEF PushCourse, Pushes, PushSteps, Leads, Follows
<1> HIDE DEF PushCourse
<1>2. \A k \in 1 .. 5 : k = 1 \/ k = 2 \/ k = 3 \/ k = 4 \/ k = 5
  OBVIOUS
<1>3. Left(PushCourse) = {"push", "adopt", "resolve", "advance", "send"}
  BY <1>1, <1>2 DEF Left
<1>4. Program(PushCourse)
  BY <1>1, <1>2 DEF Program, Pushes, PushSteps, After, Leads, Follows, Firsts
<1> QED
  BY <1>1, <1>3, <1>4 DEF Block, PushSteps, Follows, Firsts

LEMMA StatusFits ==
  Block(<<"status", "cache">>) /\ Left(<<"status", "cache">>) = {"status", "cache"}
<1> DEFINE s == <<"status", "cache">>
<1>1. s \in Seq(Steps) /\ Len(s) = 2 /\ s # << >> /\ s[1] = "status" /\ s[2] = "cache"
  BY Known DEF Leads
<1> HIDE DEF s
<1>2. \A k \in 1 .. 2 : k = 1 \/ k = 2
  OBVIOUS
<1>3. Left(s) = {"status", "cache"}
  BY <1>1, <1>2 DEF Left
<1>4. Program(s)
  BY <1>1, <1>2 DEF Program, Pushes, PushSteps, After, Leads, Follows, Firsts
<1> QED
  BY <1>1, <1>3, <1>4 DEF Block, PushSteps, Follows, Firsts, s

\* The course of a change of status.
CourseSteps == {"save", "journal", "dates", "status", "cache", "unlist", "grimmory"}
LEMMA CourseFits ==
  ASSUME NEW from \in Statuses, NEW to \in Statuses, NEW source \in DOMAIN Effects
  PROVE  LET c == Course(from, to, source) IN
         /\ Program(c) /\ Left(c) \subseteq CourseSteps
         /\ c # << >> => c[1] \notin Follows /\ c[1] \notin PushSteps
         /\ from # to => c # << >> /\ c[1] = "save"
         /\ from = to => "save" \notin Left(c) /\ "dates" \notin Left(c)
                         /\ (c # << >> => source = "completion_sync")
<1>1. ASSUME NEW step \in {"journal", "unlist", "grimmory"}, NEW s, s = << >> \/ s = <<step>>
      PROVE  Block(s) /\ Left(s) \subseteq {step}
  BY <1>1, NoSteps, OneStep, Known
<1>2. ASSUME NEW s, s = << >> \/ s = <<"status", "cache">>
      PROVE  Block(s) /\ Left(s) \subseteq {"status", "cache"}
  BY <1>2, NoSteps, StatusFits
<1>3. CASE from = to
  <2>1. Course(from, to, source) = If(source = "completion_sync", <<"grimmory">>)
    BY <1>3 DEF Course
  <2>2. Block(<<"grimmory">>) /\ Left(<<"grimmory">>) = {"grimmory"} /\ <<"grimmory">>[1] = "grimmory"
    BY OneStep, Known
  <2> QED
    BY <1>3, <2>1, <2>2, NoSteps DEF If, Block, CourseSteps, Firsts, Follows
<1>4. CASE from # to
  <2> DEFINE e == Effects[source]
             j == If("journal" \in e, <<"journal">>)
             h == If("hardcover" \in e, <<"status", "cache">>)
             u == If("tbr" \in e /\ to \in Reading, <<"unlist">>)
             g == If("grimmory" \in e, <<"grimmory">>)
             one == <<"save">> \o j
             two == one \o <<"dates">>
             three == two \o h
             four == three \o u
             five == four \o g
  <2>1. Course(from, to, source) = five
    BY <1>4 DEF Course
  <2>2. Block(j) /\ Left(j) \subseteq {"journal"} /\ Block(u) /\ Left(u) \subseteq {"unlist"}
        /\ Block(g) /\ Left(g) \subseteq {"grimmory"}
    <3>1. /\ j = << >> \/ j = <<"journal">>
          /\ u = << >> \/ u = <<"unlist">>
          /\ g = << >> \/ g = <<"grimmory">>
      BY DEF If
    <3> HIDE DEF j, u, g
    <3> QED
      BY <1>1, <3>1
  <2>3. Block(h) /\ Left(h) \subseteq {"status", "cache"}
    <3>1. h = << >> \/ h = <<"status", "cache">>
      BY DEF If
    <3> HIDE DEF h
    <3> QED
      BY <1>2, <3>1
  <2>4. Program(<<"save">>) /\ Left(<<"save">>) = {"save"} /\ <<"save">> # << >> /\ <<"save">>[1] = "save"
        /\ Block(<<"dates">>) /\ Left(<<"dates">>) = {"dates"}
    BY OneStep, Known
  <2> HIDE DEF j, h, u, g
  <2>5. Program(one) /\ Left(one) = {"save"} \cup Left(j) /\ one # << >> /\ one[1] = "save"
    BY <2>2, <2>4, Joined
  <2> HIDE DEF one
  <2>6. Program(two) /\ Left(two) = Left(one) \cup {"dates"} /\ two # << >> /\ two[1] = "save"
    BY <2>4, <2>5, Joined
  <2> HIDE DEF two
  <2>7. Program(three) /\ Left(three) = Left(two) \cup Left(h) /\ three # << >> /\ three[1] = "save"
    BY <2>3, <2>6, Joined
  <2> HIDE DEF three
  <2>8. Program(four) /\ Left(four) = Left(three) \cup Left(u) /\ four # << >> /\ four[1] = "save"
    BY <2>2, <2>7, Joined
  <2> HIDE DEF four
  <2>9. Program(five) /\ Left(five) = Left(four) \cup Left(g) /\ five # << >> /\ five[1] = "save"
    BY <2>2, <2>8, Joined
  <2> HIDE DEF five
  <2>10. Left(five) \subseteq CourseSteps
    BY <2>2, <2>3, <2>5, <2>6, <2>7, <2>8, <2>9 DEF CourseSteps
  <2> QED
    BY <1>4, <2>1, <2>9, <2>10, Known
<1> QED
  BY <1>3, <1>4

LEMMA RestFits ==
  ASSUME NEW s, Program(s), s # << >>
  PROVE  /\ Head(s) = s[1] /\ Program(Tail(s)) /\ Left(Tail(s)) \subseteq Left(s) 
         /\ Left(Tail(s)) \cap Firsts = {} /\ "save" \notin Left(Tail(s))
         /\ s[1] \in Left(s) /\ s[1] \in Steps
         /\ Tail(s) # << >> /\ Tail(s)[1] \in Follows => s[1] \in Leads
         /\ Tail(s) # << >> /\ Tail(s)[1] \in PushSteps => s[1] \in Pushes
         /\ s[1] \in Leads => Tail(s) # << >> /\ Tail(s)[1] = After[s[1]]
<1> DEFINE r == Tail(s)
<1>1. s \in Seq(Steps) /\ Len(s) \in Nat /\ Len(s) # 0
  BY DEF Program
<1>2. /\ r \in Seq(Steps) /\ Len(r) = Len(s) - 1 /\ Head(s) = s[1] /\ s[1] \in Steps
      /\ \A k \in 1 .. Len(r) : r[k] = s[k + 1]
  BY <1>1, HeadTailProperties
<1> HIDE DEF r
<1>3. \A k \in 1 .. Len(r) : k + 1 \in 1 .. Len(s) /\ k + 1 # 1 /\ (k + 1) - 1 = k
  BY <1>1, <1>2
<1>4. Left(r) \subseteq Left(s) /\ s[1] \in Left(s)
  BY <1>1, <1>2, <1>3 DEF Left
<1>5. Left(r) \cap Firsts = {}
  BY <1>2, <1>3 DEF Program, Left
<1>6. Program(r)
  <2> SUFFICES ASSUME NEW k \in 1 .. Len(r)
               PROVE  /\ r[k] \in Leads => k < Len(r) /\ r[k + 1] = After[r[k]]
                      /\ k # 1 /\ r[k] \in Follows => r[k - 1] \in Leads
                      /\ r[k] \in Firsts => k = 1
    BY <1>2 DEF Program
  <2>1. r[k] = s[k + 1] /\ r[k] \notin Firsts
    BY <1>2, <1>5 DEF Left
  <2>2. s[k + 1] \in Leads => k + 1 < Len(s) /\ s[k + 1 + 1] = After[s[k + 1]]
    BY <1>3 DEF Program
  <2>3. k + 1 < Len(s) => k < Len(r) /\ r[k + 1] = s[k + 1 + 1]
    BY <1>1, <1>2
  <2>4. s[k + 1] \in Follows => s[k] \in Leads
    BY <1>3 DEF Program
  <2>5. k # 1 => r[k - 1] = s[k]
    <3> SUFFICES ASSUME k # 1
                 PROVE  r[k - 1] = s[k]
      OBVIOUS
    <3>1. k - 1 \in 1 .. Len(r) /\ (k - 1) + 1 = k
      BY <1>1, <1>2
    <3> QED
      BY <1>2, <3>1
  <2> QED
    BY <2>1, <2>2, <2>3, <2>4, <2>5
<1>7. r # << >> => r[1] = s[2] /\ 2 \in 1 .. Len(s)
  BY <1>1, <1>2
<1>8. r # << >> /\ r[1] \in Follows => s[1] \in Leads
  <2>1. 2 \in 1 .. Len(s) => (s[2] \in Follows => s[2 - 1] \in Leads)
    BY DEF Program
  <2> QED
    BY <1>7, <2>1
<1>9. s[1] \in Leads => r # << >> /\ r[1] = After[s[1]]
  <2> SUFFICES ASSUME s[1] \in Leads
               PROVE  r # << >> /\ r[1] = After[s[1]]
    OBVIOUS
  <2>1. 1 \in 1 .. Len(s)
    BY <1>1
  <2>2. 1 < Len(s) /\ s[1 + 1] = After[s[1]]
    BY <2>1 DEF Program
  <2>3. r # << >>
    BY <1>1, <1>2, <2>2
  <2> QED
    BY <1>7, <2>2, <2>3
<1>10. r # << >> /\ r[1] \in PushSteps => s[1] \in Pushes
  BY <1>8, <1>9, Known DEF Leads, Pushes, PushSteps, After
<1> QED
  BY <1>2, <1>4, <1>5, <1>6, <1>8, <1>9, <1>10 DEF r, Firsts

\* A push that has begun sends, and what comes after is no part of it.
LEMMA PushGoesOn ==
  ASSUME NEW s, Program(s), s # << >>, s[1] \in Pushes \cup {"send"}
  PROVE  \E k \in 1 .. Len(s) : s[k] = "send"
<1>1. s \in Seq(Steps) /\ Len(s) \in Nat /\ 1 \in 1 .. Len(s)
  BY DEF Program
<1>2. \A k \in 1 .. Len(s) : s[k] \in Pushes => k + 1 \in 1 .. Len(s) /\ s[k + 1] = After[s[k]]
  BY <1>1 DEF Program, Leads
<1>3. ASSUME NEW k \in 1 .. Len(s), s[k] = "advance"
      PROVE  \E j \in 1 .. Len(s) : s[j] = "send"
  BY <1>2, <1>3 DEF Pushes, After
<1>4. ASSUME NEW k \in 1 .. Len(s), s[k] = "resolve"
      PROVE  \E j \in 1 .. Len(s) : s[j] = "send"
  <2>1. k + 1 \in 1 .. Len(s) /\ s[k + 1] = "advance"
    BY <1>2, <1>4 DEF Pushes, After
  <2> QED
    BY <1>3, <2>1
<1>5. ASSUME NEW k \in 1 .. Len(s), s[k] = "adopt"
      PROVE  \E j \in 1 .. Len(s) : s[j] = "send"
  <2>1. k + 1 \in 1 .. Len(s) /\ s[k + 1] = "resolve"
    BY <1>2, <1>5 DEF Pushes, After
  <2> QED
    BY <1>4, <2>1
<1>6. ASSUME NEW k \in 1 .. Len(s), s[k] = "push"
      PROVE  \E j \in 1 .. Len(s) : s[j] = "send"
  <2>1. k + 1 \in 1 .. Len(s) /\ s[k + 1] = "adopt"
    BY <1>2, <1>6 DEF Pushes, After
  <2> QED
    BY <1>5, <2>1
<1>7. ASSUME NEW k \in 1 .. Len(s), s[k] = "initial"
      PROVE  \E j \in 1 .. Len(s) : s[j] = "send"
  <2>1. k + 1 \in 1 .. Len(s) /\ s[k + 1] = "push"
    BY <1>2, <1>7 DEF Pushes, After
  <2> QED
    BY <1>6, <2>1
<1> QED
  BY <1>1, <1>3, <1>4, <1>5, <1>6, <1>7 DEF Pushes

LEMMA AfterSend ==
  ASSUME NEW s, Program(s), NEW k \in 1 .. Len(s), s[k] = "send"
  PROVE  LET r == SubSeq(s, k + 1, Len(s)) IN
         /\ Program(r) /\ Left(r) \subseteq Left(s)
         /\ Left(r) \cap Firsts = {} /\ "save" \notin Left(r)
         /\ r # << >> => r[1] \notin Follows /\ r[1] \notin PushSteps
<1> DEFINE r == SubSeq(s, k + 1, Len(s))
<1>1. s \in Seq(Steps) /\ Len(s) \in Nat
  BY DEF Program
<1>2. /\ r \in Seq(Steps) /\ Len(r) = Len(s) - k /\ Len(r) \in Nat
      /\ \A j \in 1 .. Len(r) : r[j] = s[j + k]
  <2>1. /\ r \in Seq(Steps) /\ Len(r) = (IF k + 1 <= Len(s) THEN Len(s) - (k + 1) + 1 ELSE 0)
        /\ \A j \in 1 .. Len(s) - (k + 1) + 1 : r[j] = s[(k + 1) + j - 1]
    <3>1. k + 1 \in 1 .. Len(s) + 1 /\ Len(s) \in k .. Len(s)
      BY <1>1
    <3> QED
      BY <1>1, <3>1, SubSeqProperties
  <2>2. Len(r) = Len(s) - k /\ Len(r) \in Nat
    BY <1>1, <2>1
  <2>3. \A j \in 1 .. Len(r) : j \in 1 .. Len(s) - (k + 1) + 1 /\ (k + 1) + j - 1 = j + k
    BY <1>1, <2>2
  <2> QED
    BY <2>1, <2>2, <2>3
<1> HIDE DEF r
<1>3. \A j \in 1 .. Len(r) : j + k \in 1 .. Len(s) /\ j + k # 1
  <2>1. k \in Nat /\ k # 0 /\ k <= Len(s) /\ Len(r) = Len(s) - k
    BY <1>1, <1>2
  <2> HIDE DEF r
  <2> QED
    BY <1>1, <2>1
<1>4. Left(r) \subseteq Left(s)
  BY <1>2, <1>3 DEF Left
<1>5. Left(r) \cap Firsts = {}
  <2>1. \A j \in 1 .. Len(s) : s[j] \in Firsts => j = 1
    BY DEF Program
  <2>2. \A j \in 1 .. Len(r) : r[j] \notin Firsts
    BY <1>2, <1>3, <2>1
  <2> QED
    BY <2>2 DEF Left
<1>6. Program(r)
  <2> SUFFICES ASSUME NEW j \in 1 .. Len(r)
               PROVE  /\ r[j] \in Leads => j < Len(r) /\ r[j + 1] = After[r[j]]
                      /\ j # 1 /\ r[j] \in Follows => r[j - 1] \in Leads
                      /\ r[j] \in Firsts => j = 1
    BY <1>2 DEF Program
  <2>1. r[j] = s[j + k] /\ r[j] \notin Firsts
    BY <1>2, <1>5 DEF Left
  <2>2. s[j + k] \in Leads => j + k < Len(s) /\ s[j + k + 1] = After[s[j + k]]
    BY <1>3 DEF Program
  <2>3. j + k < Len(s) => j < Len(r) /\ r[j + 1] = s[j + k + 1]
    <3> SUFFICES ASSUME j + k < Len(s)
                 PROVE  j < Len(r) /\ r[j + 1] = s[j + k + 1]
      OBVIOUS
    <3>1. j < Len(r) /\ j + 1 \in 1 .. Len(r) /\ (j + 1) + k = j + k + 1
      BY <1>1, <1>2
    <3> QED
      BY <1>2, <3>1
  <2>4. s[j + k] \in Follows => s[j + k - 1] \in Leads
    BY <1>3 DEF Program
  <2>5. j # 1 => r[j - 1] = s[j + k - 1]
    <3> SUFFICES ASSUME j # 1
                 PROVE  r[j - 1] = s[j + k - 1]
      OBVIOUS
    <3>1. j - 1 \in 1 .. Len(r) /\ (j - 1) + k = j + k - 1
      BY <1>1, <1>2
    <3> QED
      BY <1>2, <3>1
  <2> QED
    BY <2>1, <2>2, <2>3, <2>4, <2>5
<1>7. r # << >> => r[1] \notin Follows
  <2> SUFFICES ASSUME r # << >>, r[1] \in Follows
               PROVE  FALSE
    OBVIOUS
  <2>1. 1 \in 1 .. Len(r) /\ (1 + k) - 1 = k
    BY <1>1, <1>2
  <2>2. s[1 + k] \in Follows /\ 1 + k \in 1 .. Len(s) /\ 1 + k # 1
    BY <1>2, <1>3, <2>1
  <2>3. s[k] \in Leads
    BY <2>1, <2>2 DEF Program
  <2> QED
    BY <2>3 DEF Leads, Pushes
<1> QED
  BY <1>4, <1>5, <1>6, <1>7, Known DEF r, Firsts

-----------------------------------------------------------------------------
(***************************************************************************)
(* Operations.                                                             *)
(***************************************************************************)
Same(q, r) == q.b = r.b /\ q.d = r.d /\ q.to = r.to /\ q.pct = r.pct
OpsFit == op \in [Ops -> Operation] /\ \A o \in Ops : Fits(op[o])

\* No reading is lost from the count, and a book becomes completed by a completion.
Grows ==
    /\ completions' \in Nat /\ completions <= completions'
    /\ (earned => earned') /\ (recovered => recovered')
    /\ book'.status = "completed" => book.status = "completed" \/ completions < completions'

LEMMA IdleFits ==
  /\ Idle \in Operation /\ Idle.todo = << >>
  /\ completions \in Nat => Fits(Idle)
<1>1. /\ Idle.todo = << >> /\ Idle.d = NotLinked /\ Idle.to = None /\ Idle.pct = 0
      /\ Idle.b = [status |-> "not_started", started |-> None, finished |-> None, count |-> 1]
  BY DEF Idle
<1>2. Idle.b \in Book /\ Idle.b.count = 1 /\ Idle.b.status = "not_started"
  BY <1>1 DEF Book, Statuses, Dates
<1>3. NotLinked \in Details /\ WholeLink(NotLinked)
  BY DEF NotLinked, Details, HcStatuses, NoBook, Ignored, WholeLink
<1>4. Idle \in Operation
  <2>1. 0 \in 0 .. 100 /\ {} \in SUBSET HcBooks /\ << >> \in Seq(Steps)
    OBVIOUS
  <2> QED
    BY <1>2, <1>3, <2>1 DEF Idle, Operation
<1>5. ASSUME completions \in Nat
      PROVE  Fits(Idle)
  <2>1. Program(<< >>) /\ Left(<< >>) = {}
    BY NoSteps DEF Block
  <2>2. Loaded(Idle)
    BY <1>1, <2>1 DEF Loaded, First
  <2>3. Counted(Idle)
    BY <1>1, <1>2, <1>5, <2>1 DEF Counted, First
  <2>4. EarnedBy(Idle)
    BY <1>1, <1>2 DEF EarnedBy, First
  <2> QED
    BY <1>1, <1>3, <2>1, <2>2, <2>3, <2>4 DEF Fits
<1> QED
  BY <1>1, <1>4, <1>5

LEMMA SameFits ==
  ASSUME NEW q, NEW r, q.todo = r.todo, Same(q, r), Fits(r)
  PROVE  Fits(q)
  BY DEF Same, Fits, Loaded, Counted, EarnedBy, First

LEMMA StaysFit ==
  ASSUME NEW q \in Operation, Fits(q), Grows, completions \in Nat
  PROVE  Fits(q)'
<1>1. q.b.count \in Nat
  BY DEF Operation, Book
<1>2. Counted(q)'
  BY <1>1 DEF Fits, Counted, Grows
<1>3. EarnedBy(q)'
  BY DEF Fits, EarnedBy, Grows
<1> QED
  BY <1>2, <1>3 DEF Fits, Grows

\* Only the operation o goes on.
LEMMA OpGoes ==
  ASSUME Inv, Grows, NEW o \in Ops, NEW q \in Operation, op' = [op EXCEPT ![o] = q], Fits(q)'
  PROVE  OpsFit'
<1>1. op' \in [Ops -> Operation] /\ op'[o] = q /\ \A p \in Ops : p # o => op'[p] = op[p]
  BY DEF Inv, TypeOK
<1>2. \A p \in Ops : op[p] \in Operation /\ Fits(op[p])
  BY DEF Inv, TypeOK
<1>3. completions \in Nat
  BY DEF Inv, TypeOK
<1>4. ASSUME NEW p \in Ops
      PROVE  Fits(op[p])'
  <2>1. CASE p = o
    BY <1>1, <2>1 DEF Fits, Loaded, Counted, EarnedBy, First
  <2>2. CASE p # o
    <3>1. PICK c \in Operation : c = op[p] /\ Fits(c)
      BY <1>2
    <3>2. Fits(c)' /\ op'[p] = c
      BY <1>1, <1>3, <2>2, <3>1, StaysFit
    <3> QED
      BY <3>2 DEF Fits, Loaded, Counted, EarnedBy, First
  <2> QED
    BY <2>1, <2>2
<1> QED
  BY <1>1, <1>4 DEF OpsFit

\* What runs beside an edit goes on as it was.
LEMMA WithClean ==
  ASSUME NEW r \in Operation, NEW c \in BOOLEAN
  PROVE  [r EXCEPT !.clean = c] \in Operation /\ [r EXCEPT !.clean = c].todo = r.todo
         /\ Same([r EXCEPT !.clean = c], r)
  BY DEF Operation, Same

LEMMA WithTodo ==
  ASSUME NEW r \in Operation, NEW todo \in Seq(Steps)
  PROVE  [r EXCEPT !.todo = todo] \in Operation /\ [r EXCEPT !.todo = todo].todo = todo
         /\ Same([r EXCEPT !.todo = todo], r)
  BY DEF Operation, Same

LEMMA WithBook ==
  ASSUME NEW r \in Operation, NEW b \in Book
  PROVE  LET q == [r EXCEPT !.b = b] IN
         q \in Operation /\ q.b = b /\ q.todo = r.todo /\ q.d = r.d /\ q.to = r.to /\ q.pct = r.pct
  BY DEF Operation

LEMMA WithDetails ==
  ASSUME NEW r \in Operation, NEW d \in Details
  PROVE  LET q == [r EXCEPT !.d = d] IN
         q \in Operation /\ q.d = d /\ q.todo = r.todo /\ q.b = r.b /\ q.to = r.to /\ q.pct = r.pct
  BY DEF Operation

LEMMA WithPct ==
  ASSUME NEW r \in Operation, NEW pct \in 0 .. 100
  PROVE  LET q == [r EXCEPT !.pct = pct] IN
         q \in Operation /\ q.pct = pct /\ q.todo = r.todo /\ q.b = r.b /\ q.to = r.to /\ q.d = r.d
  BY DEF Operation

LEMMA WithTo ==
  ASSUME NEW r \in Operation, NEW to \in Statuses
  PROVE  LET q == [r EXCEPT !.to = to] IN
         q \in Operation /\ q.to = to /\ q.todo = r.todo /\ q.b = r.b /\ q.pct = r.pct /\ q.d = r.d
  BY DEF Operation

LEMMA WithFrom ==
  ASSUME NEW r \in Operation, NEW from \in Statuses
  PROVE  [r EXCEPT !.from = from] \in Operation /\ [r EXCEPT !.from = from].todo = r.todo
         /\ Same([r EXCEPT !.from = from], r)
  BY DEF Operation, Same

LEMMA WithSource ==
  ASSUME NEW r \in Operation, NEW source \in DOMAIN Effects
  PROVE  [r EXCEPT !.source = source] \in Operation /\ [r EXCEPT !.source = source].todo = r.todo
         /\ Same([r EXCEPT !.source = source], r)
  BY DEF Operation, Same

LEMMA WithItem ==
  ASSUME NEW r \in Operation, NEW i \in ItemIds
  PROVE  [r EXCEPT !.item = i] \in Operation /\ [r EXCEPT !.item = i].todo = r.todo
         /\ Same([r EXCEPT !.item = i], r)
  BY DEF Operation, Same

LEMMA WithList ==
  ASSUME NEW r \in Operation, NEW list \in SUBSET HcBooks
  PROVE  [r EXCEPT !.list = list] \in Operation /\ [r EXCEPT !.list = list].todo = r.todo
         /\ Same([r EXCEPT !.list = list], r)
  BY DEF Operation, Same

LEMMA Turned ==
  ASSUME NEW r \in Operation, NEW to \in Statuses, NEW source \in DOMAIN Effects
  PROVE  LET q == Turn(r, to, source) IN
         q \in Operation /\ q.to = to /\ q.todo = r.todo /\ q.b = r.b /\ q.pct = r.pct /\ q.d = r.d
<1> DEFINE one == [r EXCEPT !.to = to]
           two == [one EXCEPT !.from = r.b.status]
           three == [two EXCEPT !.source = source]
<1>1. one \in Operation /\ one.to = to /\ one.todo = r.todo /\ one.b = r.b /\ one.pct = r.pct /\ one.d = r.d
  BY WithTo
<1>2. r.b.status \in Statuses
  BY DEF Operation, Book
<1>3. Turn(r, to, source) = three
  BY DEF Turn
<1> HIDE DEF one
<1>4. two \in Operation /\ two.todo = one.todo /\ Same(two, one)
  BY <1>1, <1>2, WithFrom
<1> HIDE DEF two
<1>5. three \in Operation /\ three.todo = two.todo /\ Same(three, two)
  BY <1>4, WithSource
<1> HIDE DEF three
<1> QED
  BY <1>1, <1>3, <1>4, <1>5 DEF Same

\* Where an operation goes, it takes what it has loaded.
LEMMA GoFits ==
  ASSUME TypeOK, NEW o \in Ops, NEW r \in Operation, NEW todo \in Seq(Steps), op' = Go(o, r, todo)
  PROVE  \E q \in Operation :
           /\ op' = [op EXCEPT ![o] = q] /\ q.todo = todo
           /\ todo # << >> => Same(q, r)
           /\ todo = << >> => q = Idle
<1>1. CASE todo = << >>
  BY <1>1, IdleFits DEF Go
<1>2. CASE todo # << >>
  <2> DEFINE q == [r EXCEPT !.todo = todo]
  <2>1. op' = [op EXCEPT ![o] = q]
    BY <1>2 DEF Go
  <2>2. q \in Operation /\ q.todo = todo /\ Same(q, r)
    BY WithTodo
  <2> HIDE DEF q
  <2> QED
    BY <1>2, <2>1, <2>2
<1> QED
  BY <1>1, <1>2

\* An operation that goes on with the same book, change of status and progress, past
\* its save.
LEMMA GoesOn ==
  ASSUME Inv, Grows, NEW o \in Ops, op[o].todo # << >>, Head(op[o].todo) \notin {"save", "check"},
         NEW r \in Operation, NEW rest, op' = Go(o, r, rest),
         Program(rest), Left(rest) \subseteq Left(op[o].todo), "save" \notin Left(rest),
         r.b = op[o].b, r.to = op[o].to, r.pct = op[o].pct,
         r.d = op[o].d \/ r.d.hc \in HcBooks, recovered' \/ WholeLink(r.d),
         rest # << >> /\ rest[1] \in PushSteps => r.d.hc \in HcBooks,
         rest # << >> /\ rest[1] \in PushSteps \ {"adopt"} => r.d.user \in HcBooks
  PROVE  OpsFit'
<1>1. rest \in Seq(Steps) /\ (rest # << >> => Head(rest) = rest[1] /\ rest[1] \in Left(rest))
  BY RestFits DEF Program
<1>2. PICK q \in Operation : /\ op' = [op EXCEPT ![o] = q] /\ q.todo = rest
                             /\ rest # << >> => Same(q, r)
                             /\ rest = << >> => q = Idle
  BY <1>1, GoFits DEF Inv
<1>3. completions \in Nat /\ completions' \in Nat
  BY DEF Inv, TypeOK, Grows
<1>4. CASE rest = << >>
  <2>1. Fits(Idle)
    BY <1>3, IdleFits
  <2>2. Fits(q)'
    BY <1>2, <1>3, <1>4, <2>1, StaysFit
  <2> QED
    BY <1>2, <2>2, OpGoes
<1>5. CASE rest # << >>
  <2> DEFINE old == op[o]
  <2>1. old \in Operation /\ Fits(old) /\ old.todo # << >> /\ ~First(old, "save") /\ ~First(old, "check")
    BY DEF Inv, TypeOK, First
  <2>2. q.b = old.b /\ q.to = old.to /\ q.pct = old.pct /\ q.d = r.d /\ q.todo = rest
    BY <1>2, <1>5 DEF Same
  <2>3. Left(rest) \subseteq Left(old.todo)
    OBVIOUS
  <2> HIDE DEF old
  <2>4. PICK c \in Operation : c = old
    BY <2>1
  <2>5. Fits(c)'
    BY <1>3, <2>1, <2>4, StaysFit
  <2>6. ~First(q, "save") /\ rest[1] # "save" /\ \A step \in PushSteps : First(q, step) => rest[1] = step
    BY <1>1, <1>5, <2>2 DEF First
  <2>7. Loaded(q)
    <3>1. Left(rest) \cap {"save", "status", "cache"} # {} => q.to \in Statuses
      BY <2>1, <2>2, <2>3 DEF Fits, Loaded
    <3>2. Left(rest) \cap ForBook # {} => q.d.hc \in HcBooks
      BY <2>1, <2>2, <2>3 DEF Fits, Loaded, old
    <3>3. /\ "initial" \in Left(rest) => Left(rest) \cap {"save", "dates", "check", "mark"} = {}
          /\ Left(rest) \cap {"check", "mark"} # {} => q.pct > 99
      BY <2>1, <2>2, <2>3 DEF Fits, Loaded
    <3> QED
      BY <1>5, <2>2, <2>6, <3>1, <3>2, <3>3 DEF Loaded
  <2>8. Counted(q)'
    <3>1. Counted(c)' /\ ~First(c, "save") /\ c.todo # << >> /\ Left(rest) \subseteq Left(c.todo)
      BY <2>1, <2>3, <2>4, <2>5 DEF Fits
    <3>2. q.b = c.b /\ q.to = c.to
      BY <2>2, <2>4
    <3> QED
      BY <2>2, <3>1, <3>2 DEF Counted
  <2>9. EarnedBy(q)'
    <3>1. EarnedBy(c)' /\ ~First(c, "save") /\ ~First(c, "check") /\ c.todo # << >>
      BY <2>1, <2>4, <2>5 DEF Fits
    <3>2. q.b = c.b /\ q.to = c.to /\ q.pct = c.pct
      BY <2>2, <2>4
    <3> QED
      BY <2>6, <3>1, <3>2 DEF EarnedBy
  <2>10. ~recovered' => WholeLink(q.d)
    BY <2>2
  <2>11. Fits(q)'
    BY <2>2, <2>7, <2>8, <2>9, <2>10 DEF Fits
  <2> QED
    BY <1>2, <2>11, OpGoes
<1> QED
  BY <1>4, <1>5

LEMMA ReadsOn ==
  ASSUME Inv, Grows, NEW o \in Ops, NEW step, At(o, step), step \notin {"save", "check"},
         NEW r \in Operation, Reads(o, r),
         r.b = op[o].b, r.to = op[o].to, r.pct = op[o].pct,
         r.d = op[o].d \/ r.d.hc \in HcBooks, recovered' \/ WholeLink(r.d),
         step \in Pushes \ {"initial"} => r.d.hc \in HcBooks,
         step \in Pushes \ {"initial", "push"} => r.d.user \in HcBooks
  PROVE  OpsFit'
<1> DEFINE s == op[o].todo
           rest == Tail(s)
<1>1. op' = Go(o, r, rest) /\ s # << >> /\ Head(s) = step /\ Program(s)
  BY DEF Reads, Rest, At, Inv, Fits
<1> HIDE DEF s
<1>2. /\ Program(rest) /\ Left(rest) \subseteq Left(s) /\ "save" \notin Left(rest) /\ s[1] = step
      /\ rest # << >> /\ rest[1] \in PushSteps => step \in Pushes
      /\ step \in Pushes \cup {"status"} => rest # << >> /\ rest[1] = After[step]
  BY <1>1, RestFits DEF Leads
<1> HIDE DEF rest
<1>3. rest # << >> /\ rest[1] \in PushSteps => step \in Pushes \ {"initial"}
  BY <1>2 DEF Pushes, PushSteps, After
<1>4. rest # << >> /\ rest[1] \in PushSteps \ {"adopt"} => step \in Pushes \ {"initial", "push"}
  BY <1>2 DEF Pushes, PushSteps, After
<1>5. /\ op[o].todo # << >> /\ Head(op[o].todo) \notin {"save", "check"}
      /\ Left(rest) \subseteq Left(op[o].todo)
  BY <1>1, <1>2 DEF s
<1> QED
  BY <1>1, <1>2, <1>3, <1>4, <1>5, GoesOn

\* A step that loads nothing.
LEMMA Passes ==
  ASSUME Inv, Grows, NEW o \in Ops, NEW step, At(o, step), step \notin {"save", "check", "push", "adopt"},
         Reads(o, op[o])
  PROVE  OpsFit'
<1> DEFINE r == op[o]
<1>1. r \in Operation /\ Fits(r) /\ First(r, step)
  BY DEF Inv, TypeOK, At, First
<1>2. Reads(o, r) /\ r.b = op[o].b /\ r.to = op[o].to /\ r.pct = op[o].pct /\ r.d = op[o].d
  OBVIOUS
<1>3. recovered' \/ WholeLink(r.d)
  BY <1>1 DEF Fits, Grows
<1>4. step \in Pushes \ {"initial"} => r.d.hc \in HcBooks
  BY <1>1 DEF Fits, Loaded, Pushes, PushSteps
<1>5. step \in Pushes \ {"initial", "push"} => r.d.user \in HcBooks
  BY <1>1 DEF Fits, Loaded, Pushes, PushSteps
<1> HIDE DEF r
<1> QED
  BY <1>1, <1>2, <1>3, <1>4, <1>5, ReadsOn

\* A push that is given up.
LEMMA Stops ==
  ASSUME Inv, Grows, NEW o \in Ops, NEW step \in Pushes \cup {"send"}, At(o, step),
         GivesUp(o) \/ op' = Go(o, op[o], AfterPush(o))
  PROVE  OpsFit'
<1> DEFINE s == op[o].todo
           r == op[o]
           rest == AfterPush(o)
           next == IF rest # << >> /\ Head(rest) = "record" THEN Tail(rest) ELSE rest
<1>1. r \in Operation /\ Program(s) /\ s # << >> /\ Head(s) = step /\ s[1] = step
      /\ (recovered' \/ WholeLink(r.d))
  BY RestFits DEF Inv, TypeOK, At, Fits, Grows
<1>2. PICK k \in 1 .. Len(s) : s[k] = "send" /\ rest = SubSeq(s, k + 1, Len(s))
  <2>1. \E k \in 1 .. Len(s) : s[k] = "send"
    BY <1>1, PushGoesOn
  <2>2. DOMAIN s = 1 .. Len(s)
    BY <1>1 DEF Program
  <2> QED
    BY <2>1, <2>2 DEF AfterPush
<1>3. op' = Go(o, r, next) \/ op' = Go(o, r, rest)
  BY DEF GivesUp
<1> HIDE DEF s, rest
<1>4. /\ Program(rest) /\ Left(rest) \subseteq Left(s) /\ "save" \notin Left(rest)
      /\ rest # << >> => rest[1] \notin PushSteps
  BY <1>1, <1>2, AfterSend
<1>5. /\ Program(next) /\ Left(next) \subseteq Left(s) /\ "save" \notin Left(next)
      /\ next # << >> => next[1] \notin PushSteps
  <2>1. CASE rest # << >> /\ Head(rest) = "record"
    <3> DEFINE tail == Tail(rest)
    <3>1. next = tail
      BY <2>1
    <3>2. /\ Program(tail) /\ Left(tail) \subseteq Left(rest) /\ rest[1] = "record"
          /\ tail # << >> /\ tail[1] \in PushSteps => rest[1] \in Pushes
      BY <1>4, <2>1, RestFits
    <3> HIDE DEF tail, next
    <3> QED
      BY <1>4, <3>1, <3>2 DEF Pushes
  <2>2. CASE ~(rest # << >> /\ Head(rest) = "record")
    BY <1>4, <2>2
  <2> QED
    BY <2>1, <2>2
<1>6. /\ op[o].todo # << >> /\ Head(op[o].todo) \notin {"save", "check"}
      /\ Left(rest) \subseteq Left(op[o].todo) /\ Left(next) \subseteq Left(op[o].todo)
  BY <1>1, <1>4, <1>5 DEF s, Pushes
<1>7. r.b = op[o].b /\ r.to = op[o].to /\ r.pct = op[o].pct /\ r.d = op[o].d
  OBVIOUS
<1> HIDE DEF r, next
<1>8. CASE op' = Go(o, r, next)
  BY <1>1, <1>5, <1>6, <1>7, <1>8, GoesOn
<1>9. CASE op' = Go(o, r, rest)
  BY <1>1, <1>4, <1>6, <1>7, <1>9, GoesOn
<1> QED
  BY <1>3, <1>8, <1>9

LEMMA TouchedFits ==
  ASSUME Inv, Grows, op' = Touched(op)
  PROVE  OpsFit'
<1>1. completions \in Nat
  BY DEF Inv, TypeOK
<1>2. ASSUME NEW p \in Ops
      PROVE  op'[p] \in Operation /\ Fits(op[p])'
  <2>1. PICK c \in Operation : c = op[p] /\ Fits(c)
    BY DEF Inv, TypeOK
  <2>2. Fits(c)'
    BY <1>1, <2>1, StaysFit
  <2>3. op'[p] = c \/ op'[p] = [c EXCEPT !.clean = FALSE]
    BY <2>1 DEF Touched
  <2>4. PICK f \in BOOLEAN : f = FALSE
    OBVIOUS
  <2> DEFINE q == [c EXCEPT !.clean = f]
  <2>5. q \in Operation /\ q.todo = c.todo /\ Same(q, c) /\ (op'[p] = c \/ op'[p] = q)
    BY <2>3, <2>4, WithClean
  <2> HIDE DEF q
  <2>6. PICK n \in Operation : n = op'[p] /\ n.todo = c.todo /\ Same(n, c)
    BY <2>5 DEF Same
  <2>7. Fits(n)'
    BY <2>2, <2>6 DEF Same, Fits, Loaded, Counted, EarnedBy, First
  <2> QED
    BY <2>6, <2>7 DEF Fits, Loaded, Counted, EarnedBy, First
<1>3. op' \in [Ops -> Operation]
  <2>1. op' = [p \in Ops |-> op'[p]]
    BY DEF Touched, Inv, TypeOK
  <2> QED
    BY <1>2, <2>1
<1> QED
  BY <1>2, <1>3 DEF OpsFit

\* What an operation starts with: a book of some status, and a program that begins with
\* its save or has none.
Begins(todo, r, status, reported) ==
    /\ Program(todo) /\ (todo # << >> => todo[1] \notin PushSteps)
    /\ Left(todo) \cap {"save", "status", "cache"} # {} => r.to \in Statuses
    /\ Left(todo) \cap ForBook # {} => r.d.hc \in HcBooks
    /\ "initial" \in Left(todo) => Left(todo) \cap {"save", "dates", "check", "mark"} = {}
    /\ Left(todo) \cap {"check", "mark"} # {} => r.pct > 99
    /\ "dates" \in Left(todo) => todo[1] = "save"
    /\ todo # << >> /\ todo[1] = "save" /\ r.to = "completed" => status # "completed"
    /\ todo # << >> /\ todo[1] = "save" /\ r.pct > 99 => reported \/ r.to = "completed"
    /\ todo # << >> /\ todo[1] \notin {"save", "check"} /\ (r.pct > 99 \/ r.to = "completed") => reported

LEMMA BegunFits ==
  ASSUME Inv, NEW o \in Ops, NEW r \in Operation, NEW todo, r.b = book, op' = Begun(o, r, todo),
         UNCHANGED <<book, completions, recovered>>, earned => earned',
         Begins(todo, r, book.status, earned'), ~recovered => WholeLink(r.d)
  PROVE  OpsFit' /\ Grows
<1>1. completions \in Nat /\ book \in Book /\ book.count \in Nat
  BY DEF Inv, TypeOK, Book
<1>2. Grows
  BY <1>1 DEF Grows
<1>3. \A p \in Ops : op[p] \in Operation /\ Fits(op[p])
  BY DEF Inv, TypeOK
<1>4. PICK f \in BOOLEAN, alone \in BOOLEAN : f = FALSE /\ (alone <=> \A p \in Ops : ~Busy(p))
  OBVIOUS
<1>5. todo \in Seq(Steps) /\ (todo # << >> => Head(todo) = todo[1])
  BY RestFits DEF Begins, Program
<1> DEFINE one == [r EXCEPT !.todo = todo]
           two == [one EXCEPT !.clean = alone]
           q == IF todo = << >> THEN Idle ELSE two
<1>6. one \in Operation /\ one.todo = todo /\ Same(one, r)
  BY <1>5, WithTodo
<1>7. op' = [Touched(op) EXCEPT ![o] = q]
  <2>1. two = [r EXCEPT !.todo = todo, !.clean = \A p \in Ops : ~Busy(p)]
    BY <1>4
  <2> QED
    BY <2>1 DEF Begun
<1> HIDE DEF one
<1>8. two \in Operation /\ two.todo = todo /\ Same(two, r)
  BY <1>6, WithClean DEF Same
<1> HIDE DEF two
<1>9. q \in Operation /\ q.todo = todo /\ (todo # << >> => Same(q, r)) /\ (todo = << >> => q = Idle)
  BY <1>8, IdleFits
<1> HIDE DEF q
<1>10. Fits(q)'
  <2>1. CASE todo = << >>
    BY <1>1, <1>2, <1>9, <2>1, IdleFits, StaysFit
  <2>2. CASE todo # << >>
    <3>1. q.b = book /\ q.d = r.d /\ q.to = r.to /\ q.pct = r.pct /\ q.todo = todo
      BY <1>9, <2>2 DEF Same
    <3>2. \A step : First(q, step) <=> todo[1] = step
      BY <1>5, <2>2, <3>1 DEF First
    <3>3. Loaded(q)
      BY <1>5, <2>2, <3>1, <3>2 DEF Loaded, Begins
    <3>4. Counted(q)'
      <4>1. q.b.count <= 1 + completions
        BY <1>1, <3>1 DEF Inv, Stored
      <4>2. "dates" \in Left(q.todo) => First(q, "save")
        BY <3>1, <3>2 DEF Begins
      <4> QED
        BY <3>1, <4>1, <4>2 DEF Counted
    <3>5. EarnedBy(q)'
      BY <2>2, <3>1, <3>2 DEF EarnedBy, Begins, Inv, Stored
    <3> QED
      BY <3>1, <3>3, <3>4, <3>5 DEF Fits, Begins
  <2> QED
    BY <2>1, <2>2
<1>11. ASSUME NEW p \in Ops
       PROVE  op'[p] \in Operation /\ Fits(op[p])'
  <2>1. CASE p = o
    <3>1. op'[p] = q
      BY <1>7, <2>1 DEF Touched
    <3> QED
      BY <1>9, <1>10, <3>1 DEF Fits, Loaded, Counted, EarnedBy, First
  <2>2. CASE p # o
    <3>1. PICK c \in Operation : c = op[p] /\ Fits(c)
      BY <1>3
    <3>2. Fits(c)'
      BY <1>1, <1>2, <3>1, StaysFit
    <3> DEFINE d == [c EXCEPT !.clean = f]
    <3>3. op'[p] = c \/ op'[p] = d
      BY <1>4, <1>7, <2>2, <3>1 DEF Touched
    <3>4. d \in Operation /\ d.todo = c.todo /\ Same(d, c)
      BY WithClean
    <3> HIDE DEF d
    <3>5. PICK n \in Operation : n = op'[p] /\ n.todo = c.todo /\ Same(n, c)
      BY <3>3, <3>4 DEF Same
    <3>6. Fits(n)'
      BY <3>2, <3>5 DEF Same, Fits, Loaded, Counted, EarnedBy, First
    <3> QED
      BY <3>5, <3>6 DEF Fits, Loaded, Counted, EarnedBy, First
  <2> QED
    BY <2>1, <2>2
<1>12. op' \in [Ops -> Operation]
  <2>1. op' = [p \in Ops |-> op'[p]]
    BY <1>7 DEF Touched
  <2> QED
    BY <1>11, <2>1
<1> QED
  BY <1>2, <1>11, <1>12 DEF OpsFit

-----------------------------------------------------------------------------
(***************************************************************************)
(* The invariant by what a step may change.                                *)
(***************************************************************************)
BookFits == book \in Book /\ book.count <= 1 + completions /\ (book.status = "completed" => earned)
PlaceFits == progress \in 0 .. 100 /\ (progress > 99 => earned)
LinkFits == details \in Details /\ (recovered \/ WholeLink(details))
MirrorFits == remote \in [HcBooks -> Remote] /\ \A h \in HcBooks : remote[h].status = Read => earned
SentFits == sent \in [started : Dates \cup {NotADate}, finished : Dates \cup {NotADate}]
ListFits == tbr \in [ItemIds -> Item \cup {None}]
JournalFits == journal \in [{"started", "finished"} -> Nat]
OtherFits ==
    /\ grimmory \in {"unset", "READING", "READ"}
    /\ completions \in Nat /\ earned \in BOOLEAN /\ recovered \in BOOLEAN /\ apart \in BOOLEAN
    /\ requests \in 0 .. MaxRequests /\ faults \in 0 .. MaxFaults

LEMMA Parts ==
  Inv <=> /\ BookFits /\ PlaceFits /\ LinkFits /\ MirrorFits /\ SentFits /\ ListFits
          /\ JournalFits /\ OtherFits /\ OpsFit
  BY DEF Inv, TypeOK, Stored, EarnedRead, BookFits, PlaceFits, LinkFits, MirrorFits, SentFits, ListFits,
         JournalFits, OtherFits, OpsFit

LEMMA Together ==
  ASSUME BookFits', PlaceFits', LinkFits', MirrorFits', SentFits', ListFits', JournalFits', OtherFits', OpsFit'
  PROVE  Inv'
  BY DEF Inv, TypeOK, Stored, EarnedRead, BookFits, PlaceFits, LinkFits, MirrorFits, SentFits, ListFits,
         JournalFits, OtherFits, OpsFit

LEMMA StillGrows ==
  ASSUME Inv, UNCHANGED <<book, completions, recovered>>, earned => earned'
  PROVE  Grows
  BY DEF Inv, TypeOK, Grows

\* What a step leaves alone fits as before.
LEMMA Kept ==
  ASSUME Inv, Grows
  PROVE  /\ UNCHANGED <<book, completions>> => BookFits'
         /\ UNCHANGED progress => PlaceFits'
         /\ UNCHANGED details => LinkFits'
         /\ UNCHANGED remote => MirrorFits'
         /\ UNCHANGED sent => SentFits'
         /\ UNCHANGED tbr => ListFits'
         /\ UNCHANGED journal => JournalFits'
<1>1. BookFits /\ PlaceFits /\ LinkFits /\ MirrorFits /\ SentFits /\ ListFits /\ JournalFits
  BY Parts
<1>2. (earned => earned') /\ (recovered => recovered')
  BY DEF Grows
<1> QED
  BY <1>1, <1>2 DEF BookFits, PlaceFits, LinkFits, MirrorFits, SentFits, ListFits, JournalFits

LEMMA CallFits ==
  ASSUME Inv, NEW answer \in Answers, Call(answer)
  PROVE  faults' \in 0 .. MaxFaults
  BY TrackerAssumption DEF Call, Answers, Inv, TypeOK

LEMMA StartFits ==
  ASSUME Inv, NEW o \in Ops, NEW kind, NEW r \in Operation, NEW todo, Start(o, kind, r, todo),
         earned' \in BOOLEAN, earned => earned', Begins(todo, r, book.status, earned'), recovered \/ WholeLink(r.d)
  PROVE  Inv'
<1>1. /\ UNCHANGED <<book, journal, tbr, progress, details, remote, sent, grimmory, completions, recovered, faults>>
      /\ requests' = requests + 1 /\ requests < MaxRequests /\ apart' \in BOOLEAN
      /\ op' = Begun(o, [r EXCEPT !.b = book], todo)
  BY DEF Start, Request, Asked, mirror
<1>2. PICK b \in Book : b = book
  BY DEF Inv, TypeOK
<1> DEFINE q == [r EXCEPT !.b = b]
<1>3. q \in Operation /\ q.b = book /\ q.d = r.d /\ q.to = r.to /\ q.pct = r.pct /\ op' = Begun(o, q, todo)
  BY <1>1, <1>2, WithBook
<1> HIDE DEF q
<1>4. Begins(todo, q, book.status, earned')
  BY <1>3 DEF Begins
<1>5. OpsFit' /\ Grows
  BY <1>1, <1>3, <1>4, BegunFits
<1>6. OtherFits'
  BY <1>1, TrackerAssumption DEF Inv, TypeOK, OtherFits
<1> QED
  BY <1>1, <1>5, <1>6, Kept, Together

\* An operation that has not loaded anything.
LEMMA Fresh ==
  /\ Idle \in Operation /\ Idle.d = NotLinked /\ Idle.to = None /\ Idle.pct = 0 /\ WholeLink(NotLinked)
<1>1. Idle \in Operation
  BY IdleFits
<1> QED
  BY <1>1 DEF Idle, NotLinked, WholeLink

LEMMA Bools ==
  ASSUME TypeOK
  PROVE  /\ earned \in BOOLEAN /\ (earned \/ progress > 99) \in BOOLEAN /\ TRUE \in BOOLEAN
         /\ book \in Book /\ book.status \in Statuses /\ progress \in 0 .. 100
         /\ details \in Details
  BY DEF TypeOK, Book

-----------------------------------------------------------------------------
(***************************************************************************)
(* Requests that start an operation.                                       *)
(***************************************************************************)
\* Where the steps are few and none of them changes the status.
LEMMA FewBegin ==
  ASSUME NEW step \in (Steps \ Leads) \ PushSteps, step \notin {"save", "cache", "dates"},
         NEW r, NEW status, NEW reported, r.pct > 99 \/ r.to = "completed" => reported \/ step = "check",
         step \in {"check", "mark"} => r.pct > 99,
         step \in ForBook => r.d.hc \in HcBooks
  PROVE  Begins(<<step>>, r, status, reported)
<1>1. /\ Program(<<step>>) /\ Left(<<step>>) = {step} /\ <<step>>[1] = step
  BY OneStep
<1>2. step # "initial" /\ step # "status" /\ step \notin PushSteps
  BY DEF Pushes, Leads
<1> QED
  BY <1>1, <1>2 DEF Begins

LEMMA StatusStarts ==
  ASSUME Inv, NEW o \in Ops, NEW to \in Statuses, SetStatus(o, to)
  PROVE  Inv'
<1>1. TypeOK /\ book.status \in Statuses /\ earned \in BOOLEAN /\ UNCHANGED earned /\ (book.status = "completed" => earned)
  BY Bools DEF Inv, Stored, SetStatus
<1>2. PICK from \in Statuses : from = book.status
  BY <1>1
<1> DEFINE one == Turn(Idle, to, "local")
           r == [one EXCEPT !.from = from]
           c == Course(from, to, "local")
<1>3. Start(o, "status", r, c)
  BY <1>2 DEF SetStatus
<1>4. "local" \in DOMAIN Effects
  BY DEF Effects
<1>5. one \in Operation /\ one.to = to /\ one.pct = Idle.pct /\ one.d = Idle.d
  BY <1>4, Turned, Fresh
<1> HIDE DEF one
<1>6. r \in Operation /\ Same(r, one)
  BY <1>5, WithFrom
<1> HIDE DEF r
<1>7. r.to = to /\ r.pct = 0 /\ r.d = NotLinked
  BY <1>5, <1>6, Fresh DEF Same
<1>8. /\ Program(c) /\ Left(c) \subseteq CourseSteps /\ (c # << >> => c[1] \notin PushSteps)
      /\ from # to => c # << >> /\ c[1] = "save"
      /\ from = to => c = << >>
  <2>1. from = to => c = << >>
    BY DEF Course, If
  <2> HIDE DEF c
  <2> QED
    BY <1>4, <2>1, CourseFits DEF c
<1> HIDE DEF c
<1>9. Begins(c, r, book.status, earned')
  <2>1. Left(c) \cap ForBook = {} /\ "initial" \notin Left(c) /\ Left(c) \cap {"check", "mark"} = {}
    BY <1>8 DEF CourseSteps, ForBook
  <2>2. c = << >> => Left(c) = {}
    BY NoSteps
  <2> QED
    BY <1>2, <1>7, <1>8, <2>1, <2>2 DEF Begins
<1>10. recovered \/ WholeLink(r.d)
  BY <1>7, Fresh
<1> QED
  BY <1>1, <1>3, <1>6, <1>9, <1>10, StartFits

LEMMA ProgressStarts ==
  ASSUME Inv, NEW o \in Ops, NEW p \in Percents, SetProgress(o, p)
  PROVE  Inv'
<1>1. /\ TypeOK /\ book.status \in Statuses /\ earned \in BOOLEAN /\ earned' = (earned \/ p > 99)
  BY Bools DEF Inv, SetProgress
<1>2. PICK from \in Statuses : from = book.status
  BY <1>1
<1>3. p \in 0 .. 100 /\ {"active", "not_started"} \subseteq Statuses /\ "manual_progress" \in DOMAIN Effects
  BY TrackerAssumption DEF Statuses, Effects
<1> DEFINE one == Turn(Idle, "active", "manual_progress")
           two == [one EXCEPT !.from = from]
           r == [two EXCEPT !.pct = p]
           c == If(p > 0 /\ book.status = "not_started", Course("not_started", "active", "manual_progress"))
           part == c \o <<"set">>
           all == part \o PushCourse
<1>4. Start(o, "progress", r, all)
  <2>1. r = [one EXCEPT !.from = from, !.pct = p]
    OBVIOUS
  <2> QED
    BY <1>2, <2>1 DEF SetProgress
<1>5. one \in Operation /\ one.to = "active" /\ one.d = Idle.d
  BY <1>3, Turned, Fresh
<1> HIDE DEF one
<1>6. two \in Operation /\ Same(two, one)
  BY <1>5, WithFrom
<1> HIDE DEF two
<1>7. r \in Operation /\ r.pct = p /\ r.to = "active" /\ r.d = NotLinked
  <2>1. r \in Operation /\ r.pct = p /\ r.to = two.to /\ r.d = two.d
    BY <1>3, <1>6, WithPct
  <2> HIDE DEF r
  <2> QED
    BY <1>5, <1>6, <2>1, Fresh DEF Same
<1> HIDE DEF r
<1>8. /\ Program(c) /\ Left(c) \subseteq CourseSteps /\ (c # << >> => c[1] = "save")
      /\ c = << >> => Left(c) = {}
  <2>1. CASE c = << >>
    <3>1. Program(<< >>) /\ Left(<< >>) = {}
      BY NoSteps DEF Block
    <3> HIDE DEF c
    <3> QED
      BY <2>1, <3>1
  <2>2. CASE c # << >>
    <3> DEFINE course == Course("not_started", "active", "manual_progress")
    <3>1. c = course
      BY <2>2 DEF If
    <3>2. Program(course) /\ Left(course) \subseteq CourseSteps /\ course[1] = "save"
      BY <1>3, CourseFits
    <3> HIDE DEF c, course
    <3> QED
      BY <2>2, <3>1, <3>2
  <2> QED
    BY <2>1, <2>2
<1> HIDE DEF c
<1>9. Block(<<"set">>) /\ Left(<<"set">>) = {"set"} /\ <<"set">>[1] = "set" /\ <<"set">> # << >>
  BY OneStep, Known
<1>10. /\ Program(part) /\ Left(part) = Left(c) \cup {"set"} /\ part # << >>
       /\ part[1] = IF c = << >> THEN "set" ELSE "save"
  <2>1. /\ Program(part) /\ Left(part) = Left(c) \cup {"set"}
        /\ c # << >> => part # << >> /\ part[1] = c[1]
        /\ c = << >> => part = <<"set">>
    <3> DEFINE x == <<"set">>
    <3>1. Program(c) /\ Block(x) /\ Left(x) = {"set"} /\ part = c \o x
      BY <1>8, <1>9
    <3> HIDE DEF x, part
    <3>2. /\ Program(part) /\ Left(part) = Left(c) \cup Left(x)
          /\ c # << >> => part # << >> /\ part[1] = c[1]
          /\ c = << >> => part = x
      BY <3>1, Joined
    <3> QED
      BY <3>1, <3>2 DEF x
  <2> HIDE DEF part
  <2> QED
    BY <1>8, <1>9, <2>1
<1> HIDE DEF part
<1>11. /\ Program(all) /\ Left(all) = Left(part) \cup {"push"} \cup PushSteps
       /\ all # << >> /\ all[1] = part[1]
  BY <1>10, PushFits, Joined
<1> HIDE DEF all
<1>12. Begins(all, r, book.status, earned')
  <2>1. /\ Left(all) \cap ForBook = {} /\ "initial" \notin Left(all) /\ all[1] \notin PushSteps
        /\ ("dates" \in Left(all) => all[1] = "save") /\ Left(all) \cap {"check", "mark"} = {}
    BY <1>8, <1>10, <1>11 DEF CourseSteps, ForBook, PushSteps
  <2>2. r.pct > 99 => earned'
    BY <1>1, <1>7
  <2> QED
    BY <1>3, <1>7, <1>11, <2>1, <2>2 DEF Begins
<1>13. (recovered \/ WholeLink(r.d)) /\ earned' \in BOOLEAN /\ (earned => earned')
  BY <1>1, <1>7, Fresh
<1> QED
  BY <1>4, <1>7, <1>12, <1>13, StartFits

LEMMA TwoSteps ==
  ASSUME NEW x \in {"mark"}, NEW y \in {"verify", "finish"}
  PROVE  Block(<<x, y>>) /\ Left(<<x, y>>) = {x, y} /\ <<x, y>> # << >> /\ <<x, y>>[1] = x
<1> DEFINE s == <<x, y>>
<1>1. x \in Steps /\ y \in Steps
  BY Known
<1>2. s \in Seq(Steps) /\ Len(s) = 2 /\ s # << >> /\ s[1] = x /\ s[2] = y
  BY <1>1
<1> HIDE DEF s
<1>3. \A k \in 1 .. 2 : k = 1 \/ k = 2
  OBVIOUS
<1>4. Left(s) = {x, y}
  BY <1>2, <1>3 DEF Left
<1>5. Program(s)
  BY <1>2, <1>3 DEF Program, Pushes, PushSteps, Leads, Follows, Firsts
<1> QED
  BY <1>2, <1>4, <1>5 DEF Block, PushSteps, Follows, Firsts, s

\* A push and what comes after it.
LEMMA PushThen ==
  ASSUME NEW t, Block(t)
  PROVE  LET c == PushCourse \o t IN
         Block(c) /\ Left(c) = {"push"} \cup PushSteps \cup Left(t) /\ c # << >> /\ c[1] = "push"
<1>1. Program(PushCourse)
  BY PushFits DEF Block
<1> QED
  BY <1>1, PushFits, Joined

LEMMA ListedFits ==
  LET c == <<"save", "tbr_dates", "journal", "status", "cache", "tbr_done">> IN
  /\ Program(c) /\ c # << >> /\ c[1] = "save"
  /\ Left(c) = {"save", "tbr_dates", "journal", "status", "cache", "tbr_done"}
<1> DEFINE s == <<"save", "tbr_dates", "journal", "status", "cache", "tbr_done">>
<1>1. /\ s \in Seq(Steps) /\ Len(s) = 6 /\ s # << >> /\ s[1] = "save" /\ s[2] = "tbr_dates"
      /\ s[3] = "journal" /\ s[4] = "status" /\ s[5] = "cache" /\ s[6] = "tbr_done"
  BY Known DEF Leads
<1> HIDE DEF s
<1>2. \A k \in 1 .. 6 : k = 1 \/ k = 2 \/ k = 3 \/ k = 4 \/ k = 5 \/ k = 6
  OBVIOUS
<1>3. Left(s) = {"save", "tbr_dates", "journal", "status", "cache", "tbr_done"}
  BY <1>1, <1>2 DEF Left
<1>4. Program(s)
  BY <1>1, <1>2 DEF Program, Pushes, PushSteps, After, Leads, Follows, Firsts
<1> QED
  BY <1>1, <1>3, <1>4 DEF s

LinkCourse == <<"link", "editions", "own", "fill", "initial">> \o PushCourse \o <<"record">>
LEMMA LinkFitsProgram ==
  /\ Program(LinkCourse) /\ LinkCourse # << >> /\ LinkCourse[1] = "link"
  /\ Left(LinkCourse) = {"link", "editions", "own", "fill", "initial", "push", "record"} \cup PushSteps
<1> DEFINE s == <<"link", "editions", "own", "fill", "initial">>
           p == PushCourse
           c == s \o p
<1>1. /\ s \in Seq(Steps) /\ Len(s) = 5 /\ s # << >> /\ s[1] = "link" /\ s[2] = "editions" /\ s[3] = "own"
      /\ s[4] = "fill" /\ s[5] = "initial"
  BY Known DEF Pushes, Leads, Follows
<1>2. /\ p \in Seq(Steps) /\ Len(p) = 5 /\ p[1] = "push" /\ p[2] = "adopt" /\ p[3] = "resolve"
      /\ p[4] = "advance" /\ p[5] = "send"
  BY Known DEF PushCourse, Pushes, PushSteps, Leads, Follows
<1>3. LinkCourse = c \o <<"record">>
  BY DEF LinkCourse
<1> HIDE DEF s, p
<1>4. /\ c \in Seq(Steps) /\ Len(c) = 10
      /\ \A k \in 1 .. 10 : c[k] = IF k <= 5 THEN s[k] ELSE p[k - 5]
  <2>1. /\ c \in Seq(Steps) /\ Len(c) = Len(s) + Len(p)
        /\ \A k \in 1 .. Len(s) + Len(p) : c[k] = IF k <= Len(s) THEN s[k] ELSE p[k - Len(s)]
    BY <1>1, <1>2, ConcatProperties
  <2>2. Len(s) + Len(p) = 10
    BY <1>1, <1>2
  <2> QED
    BY <1>1, <2>1, <2>2
<1> HIDE DEF c
<1>5. /\ c[1] = "link" /\ c[2] = "editions" /\ c[3] = "own" /\ c[4] = "fill" /\ c[5] = "initial"
      /\ c[6] = "push" /\ c[7] = "adopt" /\ c[8] = "resolve" /\ c[9] = "advance" /\ c[10] = "send"
  <2>1. \A k \in 1 .. 5 : k \in 1 .. 10 /\ k <= 5
    OBVIOUS
  <2>2. \A k \in 6 .. 10 : k \in 1 .. 10 /\ ~(k <= 5)
    OBVIOUS
  <2>3. /\ c[1] = s[1] /\ c[2] = s[2] /\ c[3] = s[3] /\ c[4] = s[4] /\ c[5] = s[5]
    BY <1>4, <2>1
  <2>4. /\ c[6] = p[1] /\ c[7] = p[2] /\ c[8] = p[3] /\ c[9] = p[4] /\ c[10] = p[5]
    BY <1>4, <2>2
  <2> QED
    BY <1>1, <1>2, <2>3, <2>4
<1>6. \A k \in 1 .. 10 : k = 1 \/ k = 2 \/ k = 3 \/ k = 4 \/ k = 5 \/ k = 6 \/ k = 7 \/ k = 8 \/ k = 9 \/ k = 10
  OBVIOUS
<1>7. Left(c) = {"link", "editions", "own", "fill", "initial", "push"} \cup PushSteps
  BY <1>4, <1>5, <1>6 DEF Left, PushSteps
<1>8. Program(c)
  BY <1>4, <1>5, <1>6 DEF Program, Pushes, PushSteps, After, Leads, Follows, Firsts
<1>9. c # << >>
  <2>1. c \in Seq(Steps) /\ Len(c) # 0
    BY <1>4
  <2> QED
    BY <2>1
<1> DEFINE x == <<"record">>
<1>10. Block(x) /\ Left(x) = {"record"}
  BY OneStep, Known
<1> HIDE DEF x
<1>11. /\ Program(c \o x) /\ Left(c \o x) = Left(c) \cup Left(x)
       /\ c \o x # << >> /\ (c \o x)[1] = c[1]
  BY <1>8, <1>9, <1>10, Joined
<1> QED
  BY <1>3, <1>5, <1>7, <1>10, <1>11 DEF x

\* Operations that begin with a push, of a place that was reported.
LEMMA PushStarts ==
  ASSUME Inv, NEW o \in Ops, NEW kind, NEW pct \in 0 .. 100, NEW t,
         Start(o, kind, [Idle EXCEPT !.pct = pct], PushCourse \o t),
         Block(t), Left(t) \subseteq {"mark", "verify", "record"}, "mark" \in Left(t) => pct > 99,
         earned' \in BOOLEAN, earned => earned', pct > 99 => earned'
  PROVE  Inv'
<1> DEFINE r == [Idle EXCEPT !.pct = pct]
           c == PushCourse \o t
<1>1. r \in Operation /\ r.pct = pct /\ r.to = None /\ r.d = NotLinked
  BY Fresh, WithPct
<1>2. /\ Program(c) /\ Left(c) = {"push"} \cup PushSteps \cup Left(t) /\ c # << >> /\ c[1] = "push"
  BY PushThen DEF Block
<1>3. Start(o, kind, r, c)
  OBVIOUS
<1> HIDE DEF r, c
<1>4. r.to # "completed"
  BY <1>1, TrackerAssumption DEF Statuses
<1>5. Begins(c, r, book.status, earned')
  BY <1>1, <1>2, <1>4 DEF Begins, PushSteps, ForBook
<1>6. recovered \/ WholeLink(r.d)
  BY <1>1, Fresh
<1> QED
  BY <1>1, <1>3, <1>5, <1>6, StartFits

LEMMA CompleteStarts ==
  ASSUME Inv, NEW o \in Ops, MarkComplete(o)
  PROVE  Inv'
<1> DEFINE t == <<"mark", "verify">>
<1>1. PICK pct \in 0 .. 100 : pct = 100
  OBVIOUS
<1>2. Block(t) /\ Left(t) \subseteq {"mark", "verify", "record"} /\ ("mark" \in Left(t) => pct > 99)
  BY <1>1, TwoSteps
<1>3. Start(o, "complete", [Idle EXCEPT !.pct = pct], PushCourse \o t) /\ earned'
  BY <1>1 DEF MarkComplete
<1>4. earned' \in BOOLEAN
  BY DEF MarkComplete
<1> HIDE DEF t
<1> QED
  BY <1>2, <1>3, <1>4, PushStarts

LEMMA SyncStarts ==
  ASSUME Inv, NEW o \in Ops, SyncPush(o)
  PROVE  Inv'
<1> DEFINE t == <<"record">>
<1>1. PICK pct \in 0 .. 100 : pct = progress
  BY DEF Inv, TypeOK
<1>2. Block(t) /\ Left(t) \subseteq {"mark", "verify", "record"} /\ ("mark" \in Left(t) => pct > 99)
  BY OneStep, Known
<1>3. Start(o, "sync", [Idle EXCEPT !.pct = pct], PushCourse \o t) /\ earned' = earned
  BY <1>1 DEF SyncPush
<1>4. earned' \in BOOLEAN /\ (pct > 99 => earned')
  BY <1>1, <1>3 DEF Inv, TypeOK, Stored
<1> HIDE DEF t
<1> QED
  BY <1>2, <1>3, <1>4, PushStarts

\* Operations of one step.
LEMMA OneStarts ==
  ASSUME Inv, NEW o \in Ops, NEW kind, NEW r \in Operation, NEW step, Start(o, kind, r, <<step>>),
         step \in (Steps \ Leads) \ PushSteps, step \notin {"save", "cache", "dates"},
         UNCHANGED earned, r.to \notin Statuses, r.pct > 99 <=> step = "check", step # "mark",
         step \in ForBook => r.d.hc \in HcBooks, recovered \/ WholeLink(r.d)
  PROVE  Inv'
<1>1. earned \in BOOLEAN
  BY DEF Inv, TypeOK
<1>2. r.pct > 99 \/ r.to = "completed" => earned \/ step = "check"
  BY DEF Statuses
<1> DEFINE todo == <<step>>
<1>3. Begins(todo, r, book.status, earned)
  BY <1>2, FewBegin
<1>4. Begins(todo, r, book.status, earned')
  BY <1>3
<1>5. Start(o, kind, r, todo) /\ earned' \in BOOLEAN /\ (earned => earned')
  BY <1>1
<1> HIDE DEF todo
<1> QED
  BY <1>4, <1>5, StartFits

LEMMA AutoStarts ==
  ASSUME Inv, NEW o \in Ops, AutoComplete(o)
  PROVE  Inv'
<1>1. PICK pct \in 0 .. 100 : pct = 100
  OBVIOUS
<1> DEFINE r == [Idle EXCEPT !.pct = pct]
<1>2. r \in Operation /\ r.pct = pct /\ r.to = None /\ r.d = NotLinked
  BY Fresh, WithPct
<1>3. Start(o, "auto", r, <<"check">>) /\ UNCHANGED earned
  BY <1>1 DEF AutoComplete
<1> HIDE DEF r
<1>4. "check" \in (Steps \ Leads) \ PushSteps /\ "check" \notin ForBook
  BY Known DEF ForBook
<1>5. r.to \notin Statuses /\ (recovered \/ WholeLink(r.d)) /\ r.pct > 99
  BY <1>1, <1>2, Fresh, TrackerAssumption
<1> QED
  BY <1>2, <1>3, <1>4, <1>5, OneStarts

LEMMA PromoteStarts ==
  ASSUME Inv, NEW o \in Ops, Promote(o)
  PROVE  Inv'
<1>1. PICK r \in Operation : r = Idle
  BY Fresh
<1>2. r.pct = 0 /\ r.to = None /\ r.d = NotLinked
  BY <1>1, Fresh
<1>3. Start(o, "promote", r, <<"probe">>) /\ UNCHANGED earned
  BY <1>1 DEF Promote
<1>4. "probe" \in (Steps \ Leads) \ PushSteps /\ "probe" \notin ForBook
  BY Known DEF ForBook
<1>5. r.to \notin Statuses /\ (recovered \/ WholeLink(r.d)) /\ ~(r.pct > 99)
  BY <1>2, Fresh, TrackerAssumption
<1> QED
  BY <1>3, <1>4, <1>5, OneStarts

\* Those that load the link.
LEMMA DetailsStart ==
  ASSUME Inv, NEW o \in Ops, NEW kind, NEW step \in {"own", "send_dates", "take_dates"},
         Start(o, kind, [Idle EXCEPT !.d = details], <<step>>), UNCHANGED earned, details.hc # None
  PROVE  Inv'
<1>1. PICK d \in Details : d = details
  BY DEF Inv, TypeOK
<1> DEFINE r == [Idle EXCEPT !.d = d]
<1>2. r \in Operation /\ r.pct = 0 /\ r.to = None /\ r.d = d
  BY Fresh, WithDetails
<1>3. Start(o, kind, r, <<step>>)
  BY <1>1
<1> HIDE DEF r
<1>4. step \in (Steps \ Leads) \ PushSteps
  BY Known
<1>5. r.to \notin Statuses /\ (recovered \/ WholeLink(r.d)) /\ ~(r.pct > 99) /\ r.d.hc \in HcBooks
  BY <1>1, <1>2, TrackerAssumption DEF Inv, Stored, Details
<1> QED
  BY <1>2, <1>3, <1>4, <1>5, OneStarts

LEMMA ImportStarts ==
  ASSUME Inv, NEW o \in Ops, Import(o)
  PROVE  Inv'
<1>1. PICK list \in SUBSET HcBooks : /\ Start(o, "import", [Idle EXCEPT !.list = list], <<"import">>)
                                     /\ UNCHANGED earned
  BY DEF Import
<1> DEFINE r == [Idle EXCEPT !.list = list]
<1>2. r \in Operation /\ r.pct = 0 /\ r.to = None /\ r.d = NotLinked
  BY Fresh, WithList DEF Same
<1>3. Start(o, "import", r, <<"import">>)
  BY <1>1
<1> HIDE DEF r
<1>4. "import" \in (Steps \ Leads) \ PushSteps /\ "import" \notin ForBook
  BY Known DEF ForBook
<1>5. r.to \notin Statuses /\ (recovered \/ WholeLink(r.d)) /\ ~(r.pct > 99)
  BY <1>2, Fresh, TrackerAssumption
<1> QED
  BY <1>1, <1>2, <1>3, <1>4, <1>5, OneStarts

\* A link that is new.
LEMMA NewLink ==
  ASSUME NEW h \in HcBooks, NEW e \in {None, h}
  PROVE  Linked(h, e) \in Details /\ Linked(h, e).hc = h /\ WholeLink(Linked(h, e))
<1> DEFINE one == [NotLinked EXCEPT !.hc = h]
           two == [one EXCEPT !.edition = e]
<1>1. Linked(h, e) = two
  BY DEF Linked
<1>2. one = [hc |-> h, edition |-> None, user |-> None, read |-> 0, status |-> NoBook]
  BY DEF NotLinked
<1> HIDE DEF one
<1>3. two = [hc |-> h, edition |-> e, user |-> None, read |-> 0, status |-> NoBook]
  BY <1>2
<1>4. Linked(h, e) = [hc |-> h, edition |-> e, user |-> None, read |-> 0, status |-> NoBook]
  BY <1>1, <1>3
<1> QED
  BY <1>4 DEF Details, HcStatuses, NoBook, Ignored, WholeLink

LEMMA LinkStarts ==
  ASSUME Inv, NEW o \in Ops, NEW kind, NEW h \in HcBooks, NEW e \in {None, h},
         Start(o, kind, [Idle EXCEPT !.d = Linked(h, e)], LinkCourse), UNCHANGED earned
  PROVE  Inv'
<1>1. PICK d \in Details : d = Linked(h, e) /\ d.hc = h /\ WholeLink(d)
  BY NewLink
<1> DEFINE r == [Idle EXCEPT !.d = d]
<1>2. r \in Operation /\ r.pct = 0 /\ r.to = None /\ r.d = d
  BY Fresh, WithDetails
<1>3. Start(o, kind, r, LinkCourse)
  BY <1>1
<1> HIDE DEF r
<1>4. r.to # "completed" /\ (recovered \/ WholeLink(r.d)) /\ ~(r.pct > 99) /\ r.d.hc \in HcBooks
  BY <1>1, <1>2, TrackerAssumption DEF Statuses
<1>5. Begins(LinkCourse, r, book.status, earned')
  <2>1. /\ Left(LinkCourse) \cap {"save", "status", "cache", "dates", "check", "mark"} = {}
        /\ LinkCourse[1] = "link" /\ "link" \notin PushSteps /\ Program(LinkCourse)
    BY LinkFitsProgram DEF PushSteps
  <2> QED
    BY <1>4, <2>1 DEF Begins
<1>6. earned' \in BOOLEAN /\ (earned => earned')
  BY DEF Inv, TypeOK
<1> QED
  BY <1>2, <1>3, <1>4, <1>5, <1>6, StartFits

LEMMA ListedStarts ==
  ASSUME Inv, NEW o \in Ops, NEW i \in ItemIds, StartItem(o, i)
  PROVE  Inv'
<1> DEFINE c == <<"save", "tbr_dates", "journal", "status", "cache", "tbr_done">>
           one == [Idle EXCEPT !.to = "active"]
           two == [one EXCEPT !.from = "not_started"]
           r == [two EXCEPT !.item = i]
<1>1. Start(o, "start", r, c) /\ UNCHANGED earned
  <2>1. r = [Idle EXCEPT !.to = "active", !.from = "not_started", !.item = i]
    OBVIOUS
  <2> QED
    BY <2>1 DEF StartItem
<1>2. "active" \in Statuses /\ "not_started" \in Statuses
  BY DEF Statuses
<1>3. one \in Operation /\ one.to = "active" /\ one.pct = 0 /\ one.d = NotLinked
  BY <1>2, Fresh, WithTo
<1> HIDE DEF one
<1>4. two \in Operation /\ Same(two, one)
  BY <1>2, <1>3, WithFrom
<1> HIDE DEF two
<1>5. r \in Operation /\ Same(r, two)
  BY <1>4, WithItem
<1> HIDE DEF r
<1>6. r.to = "active" /\ r.pct = 0 /\ r.d = NotLinked
  BY <1>3, <1>4, <1>5 DEF Same
<1>7. /\ Program(c) /\ c # << >> /\ c[1] = "save"
      /\ Left(c) = {"save", "tbr_dates", "journal", "status", "cache", "tbr_done"}
  BY ListedFits
<1> HIDE DEF c
<1>8. Left(c) \cap ForBook = {} /\ "initial" \notin Left(c) /\ c[1] \notin PushSteps
  BY <1>7 DEF ForBook, PushSteps
<1>9. Begins(c, r, book.status, earned')
  BY <1>2, <1>6, <1>7, <1>8 DEF Begins
<1>10. earned' \in BOOLEAN /\ (earned => earned') /\ (recovered \/ WholeLink(r.d))
  BY <1>1, <1>6, Fresh DEF Inv, TypeOK
<1> QED
  BY <1>1, <1>5, <1>9, <1>10, StartFits

\* A new item of the list.
LEMMA RowFits ==
  ASSUME ListFits, NEW h \in HcBooks, Room
  PROVE  [tbr EXCEPT ![NewItem] = NewRow(h)] \in [ItemIds -> Item \cup {None}]
  BY DEF ListFits, NewRow, Item

LEMMA ItemStarts ==
  ASSUME Inv, NEW o \in Ops, NEW h \in HcBooks, AddItem(o, h)
  PROVE  Inv'
<1>1. /\ UNCHANGED <<book, journal, progress, completions, earned, details, remote, sent, grimmory, recovered, faults>>
      /\ requests' = requests + 1 /\ requests < MaxRequests /\ apart' \in BOOLEAN /\ Room
  BY DEF AddItem, Request, Asked, local, mirror
<1>2. Grows
  BY <1>1, StillGrows
<1>3. OtherFits'
  BY <1>1, TrackerAssumption DEF Inv, TypeOK, OtherFits
<1>4. ListFits
  BY Parts
<1>5. CASE Listed(h)
  <2>1. op' = Touched(op) /\ UNCHANGED tbr
    BY <1>5 DEF AddItem
  <2>2. OpsFit'
    BY <1>2, <2>1, TouchedFits
  <2> QED
    BY <1>1, <1>2, <1>3, <2>1, <2>2, Kept, Together
<1>6. CASE ~Listed(h)
  <2>1. ListFits'
    BY <1>1, <1>4, <1>6, RowFits DEF AddItem, ListFits
  <2>2. PICK e : e = None
    OBVIOUS
  <2>3. PICK d \in Details : d = Linked(h, e) /\ d.hc = h /\ WholeLink(d)
    BY <2>2, NewLink
  <2>4. PICK b \in Book : b = book
    BY DEF Inv, TypeOK
  <2> DEFINE one == [Idle EXCEPT !.d = d]
             r == [one EXCEPT !.b = b]
             todo == <<"want">>
  <2>5. one \in Operation /\ one.pct = 0 /\ one.to = None /\ one.d = d
    BY Fresh, WithDetails
  <2>6. op' = Begun(o, r, todo)
    <3>1. r = [Idle EXCEPT !.d = Linked(h, None), !.b = book]
      BY <2>2, <2>3, <2>4
    <3> QED
      BY <1>6, <3>1 DEF AddItem
  <2> HIDE DEF one
  <2>7. r \in Operation /\ r.pct = 0 /\ r.to = None /\ r.d = d /\ r.b = book
    BY <2>4, <2>5, WithBook
  <2> HIDE DEF r
  <2>8. ~(r.pct > 99) /\ r.to # "completed" /\ r.d.hc \in HcBooks /\ WholeLink(r.d)
    BY <2>3, <2>7, TrackerAssumption DEF Statuses
  <2>9. Begins(todo, r, book.status, earned)
    BY <2>8, Known, FewBegin
  <2>10. Begins(todo, r, book.status, earned')
    BY <1>1, <2>9
  <2> HIDE DEF todo
  <2>11. OpsFit'
    BY <1>1, <2>6, <2>7, <2>8, <2>10, BegunFits
  <2> QED
    BY <1>1, <1>2, <1>3, <2>1, <2>11, Kept, Together
<1> QED
  BY <1>5, <1>6

-----------------------------------------------------------------------------
(***************************************************************************)
(* The steps of a change of status.                                        *)
(***************************************************************************)
LEMMA SaveFits ==
  ASSUME Inv, NEW o \in Ops, Save(o)
  PROVE  Inv'
<1> DEFINE r == op[o]
           s == r.todo
           rest == Tail(s)
           saved == [r.b EXCEPT !.status = r.to]
<1>1. /\ r \in Operation /\ Fits(r) /\ First(r, "save") /\ s # << >> /\ Program(s) /\ Head(s) = "save"
      /\ completions \in Nat /\ book \in Book /\ earned \in BOOLEAN
  BY DEF Save, At, Inv, TypeOK, First, Fits
<1>2. /\ book' = saved
      /\ completions' = completions
            + (IF saved.status = "completed" /\ book.status # "completed" THEN 1 ELSE 0)
      /\ earned' = (earned \/ saved.status = "completed")
      /\ op' = Go(o, [r EXCEPT !.b = saved], rest)
      /\ UNCHANGED <<journal, tbr, progress, details, remote, sent, grimmory, recovered, apart, requests, faults>>
  BY DEF Save, Reads, Rest, mirror
<1> HIDE DEF s
<1>3. /\ Program(rest) /\ Left(rest) \subseteq Left(s) /\ "save" \notin Left(rest) /\ s[1] = "save"
      /\ rest # << >> => rest[1] \notin PushSteps
      /\ "save" \in Left(s)
  BY <1>1, RestFits DEF Pushes
<1>4. rest \in Seq(Steps) /\ (rest # << >> => Head(rest) = rest[1] /\ rest[1] \in Left(rest))
  BY <1>3, RestFits DEF Program
<1> HIDE DEF rest
<1>5. r.to \in Statuses /\ r.b \in Book /\ r.b.count \in Nat
  BY <1>1, <1>3 DEF Fits, Loaded, s, Operation, Book
<1> HIDE DEF r
<1>6. saved \in Book /\ saved.status = r.to /\ saved.count = r.b.count
  BY <1>5 DEF Book
<1> HIDE DEF saved
<1>7. /\ completions' \in Nat /\ completions <= completions'
      /\ r.to = "completed" => book.status = "completed" \/ completions' = completions + 1
  BY <1>1, <1>2, <1>6
<1>8. earned' \in BOOLEAN /\ (earned => earned') /\ (r.to = "completed" => earned')
  BY <1>1, <1>2, <1>6
<1>9. Grows
  BY <1>1, <1>2, <1>6, <1>7, <1>8 DEF Grows
<1>10. r.b.count <= 1 + completions /\ (r.b.status # "completed" /\ book.status = "completed" => r.b.count <= completions)
  BY <1>1 DEF Fits, Counted, s, r
<1>11. BookFits'
  BY <1>1, <1>2, <1>5, <1>6, <1>7, <1>8, <1>10 DEF BookFits
<1>12. OtherFits'
  BY <1>2, <1>7, <1>8 DEF Inv, TypeOK, OtherFits
<1>13. OpsFit'
  <2> DEFINE t == [r EXCEPT !.b = saved]
  <2>1. t \in Operation /\ t.b = saved /\ t.todo = r.todo /\ t.d = r.d /\ t.to = r.to /\ t.pct = r.pct
    BY <1>1, <1>6, WithBook DEF r
  <2>2. op' = Go(o, t, rest)
    BY <1>2
  <2> HIDE DEF t
  <2>3. PICK q \in Operation : /\ op' = [op EXCEPT ![o] = q] /\ q.todo = rest
                               /\ rest # << >> => Same(q, t)
                               /\ rest = << >> => q = Idle
    BY <1>4, <2>1, <2>2, GoFits DEF Inv
  <2>4. CASE rest = << >>
    <3>1. Fits(q)'
      BY <1>1, <1>9, <2>3, <2>4, IdleFits, StaysFit
    <3> QED
      BY <1>9, <2>3, <3>1, OpGoes
  <2>5. CASE rest # << >>
    <3>1. q.b = saved /\ q.to = r.to /\ q.pct = r.pct /\ q.d = r.d /\ q.todo = rest
      BY <2>1, <2>3, <2>5 DEF Same
    <3>2. \A step : First(q, step) <=> rest[1] = step
      BY <1>4, <2>5, <3>1 DEF First
    <3>3. rest[1] # "save" /\ rest[1] \notin PushSteps
      BY <1>3, <1>4, <2>5
    <3>4. Loaded(q)
      <4>1. Left(rest) \subseteq Left(r.todo) /\ "save" \in Left(r.todo) /\ Loaded(r)
        BY <1>1, <1>3 DEF s, r, Fits
      <4> QED
        BY <1>5, <3>1, <3>2, <3>3, <4>1 DEF Loaded
    <3>5. Counted(q)'
      <4>1. r.to = "completed" => r.b.status # "completed"
        BY <1>1 DEF Fits, Loaded
      <4>2. r.to = "completed" => r.b.count <= completions'
        BY <1>1, <1>5, <1>7, <1>10, <4>1
      <4>3. r.b.count <= 1 + completions'
        BY <1>1, <1>5, <1>7, <1>10
      <4> QED
        BY <1>2, <1>6, <3>1, <4>2, <4>3 DEF Counted
    <3>6. EarnedBy(q)'
      <4>1. r.pct > 99 => earned \/ r.to = "completed"
        BY <1>1 DEF Fits, EarnedBy
      <4> QED
        BY <1>6, <1>8, <3>1, <3>2, <3>3, <4>1 DEF EarnedBy
    <3>7. Fits(q)'
      BY <1>1, <1>2, <1>3, <3>1, <3>4, <3>5, <3>6 DEF Fits
    <3> QED
      BY <1>9, <2>3, <3>7, OpGoes
  <2> QED
    BY <2>4, <2>5
<1> QED
  BY <1>2, <1>9, <1>11, <1>12, <1>13, Kept, Together

LEMMA JournalStepFits ==
  ASSUME Inv, NEW o \in Ops, Journal(o)
  PROVE  Inv'
<1>1. /\ UNCHANGED <<book, tbr, progress, details, remote, sent, grimmory, completions, earned, recovered, apart, requests, faults>>
      /\ Reads(o, op[o]) /\ At(o, "journal") /\ journal' = Journalled(op[o])
  BY DEF Journal, mirror, history
<1>2. Grows
  BY <1>1, StillGrows
<1>3. OpsFit'
  BY <1>1, <1>2, Passes
<1>4. JournalFits'
  <2>1. journal.started \in Nat /\ journal.finished \in Nat
    BY DEF Inv, TypeOK
  <2> DEFINE a == journal.started + (IF op[o].to = "active" /\ op[o].from = "not_started" THEN 1 ELSE 0)
             b == journal.finished + (IF op[o].to = "completed" THEN 1 ELSE 0)
  <2>2. journal' = [started |-> a, finished |-> b]
    BY <1>1 DEF Journalled
  <2>3. a \in Nat /\ b \in Nat
    BY <2>1
  <2> HIDE DEF a, b
  <2> QED
    BY <2>2, <2>3 DEF JournalFits
<1>5. OtherFits'
  BY <1>1 DEF Inv, TypeOK, OtherFits
<1> QED
  BY <1>1, <1>2, <1>3, <1>4, <1>5, Kept, Together

\* A date of the book, given or taken.
LEMMA WithStarted ==
  ASSUME NEW row \in Book, NEW day \in Dates
  PROVE  LET b == [row EXCEPT !.started = day] IN b \in Book /\ b.status = row.status /\ b.count = row.count
  BY DEF Book

LEMMA WithFinished ==
  ASSUME NEW row \in Book, NEW day \in Dates
  PROVE  LET b == [row EXCEPT !.finished = day] IN b \in Book /\ b.status = row.status /\ b.count = row.count
  BY DEF Book

LEMMA WithBoth ==
  ASSUME NEW row \in Book, NEW started \in Dates, NEW finished \in Dates
  PROVE  LET b == [row EXCEPT !.started = started, !.finished = finished]
         IN  b \in Book /\ b.status = row.status /\ b.count = row.count
<1> DEFINE one == [row EXCEPT !.started = started]
           two == [one EXCEPT !.finished = finished]
<1>1. [row EXCEPT !.started = started, !.finished = finished] = two
  OBVIOUS
<1>2. one \in Book /\ one.status = row.status /\ one.count = row.count
  BY WithStarted
<1> HIDE DEF one
<1>3. two \in Book /\ two.status = row.status /\ two.count = row.count
  BY <1>2, WithFinished
<1> HIDE DEF two
<1> QED
  BY <1>1, <1>3

LEMMA FilledFits ==
  ASSUME NEW row \in Book, NEW b \in Book, NEW to
  PROVE  LET f == Filled(row, b, to) IN
         /\ f \in Book /\ f.status = row.status
         /\ f.count = row.count \/ (to = "completed" /\ f.count = b.count + 1)
<1> DEFINE day == IF b.started = None THEN Day ELSE row.started
           one == [row EXCEPT !.started = Day]
           two == [row EXCEPT !.started = day, !.finished = Day]
           three == [row EXCEPT !.count = b.count + 1]
<1>1. Filled(row, b, to) = one \/ Filled(row, b, to) = two
      \/ (to = "completed" /\ Filled(row, b, to) = three) \/ Filled(row, b, to) = row
  <2>1. two = [row EXCEPT !.finished = Day, !.started = IF b.started = None THEN Day ELSE @]
    BY DEF Book
  <2> HIDE DEF one, two, three
  <2> QED
    BY <2>1 DEF Filled, one, three
<1>2. Day \in Dates /\ day \in Dates
  BY DEF Dates, Book
<1>3. one \in Book /\ one.status = row.status /\ one.count = row.count
  BY <1>2, WithStarted
<1> HIDE DEF day
<1>4. two \in Book /\ two.status = row.status /\ two.count = row.count
  BY <1>2, WithBoth
<1>5. three \in Book /\ three.status = row.status /\ three.count = b.count + 1
  BY DEF Book
<1> HIDE DEF one, two, three
<1> QED
  BY <1>1, <1>3, <1>4, <1>5

LEMMA DatesFit ==
  ASSUME Inv, NEW o \in Ops, FillDates(o)
  PROVE  Inv'
<1>1. /\ UNCHANGED <<journal, tbr, progress, details, remote, sent, grimmory, completions, earned, recovered, apart, requests, faults>>
      /\ Reads(o, op[o]) /\ At(o, "dates") /\ book' = Filled(book, op[o].b, op[o].to)
  BY DEF FillDates, mirror, history
<1> DEFINE r == op[o]
<1>2. r \in Operation /\ Fits(r) /\ First(r, "dates") /\ completions \in Nat
  BY DEF Inv, TypeOK, First, At, FillDates
<1>3. "dates" \in Left(r.todo)
  BY <1>2, RestFits DEF Fits, First
<1>4. ~First(r, "save")
  BY <1>2 DEF First
<1>5. r.to = "completed" => r.b.count <= completions
  BY <1>2, <1>3, <1>4 DEF Fits, Counted
<1>6. book \in Book /\ r.b \in Book /\ r.b.count \in Nat /\ book.count \in Nat
  BY <1>2 DEF Inv, TypeOK, Operation, Book
<1>7. book' = Filled(book, r.b, r.to)
  BY <1>1
<1> HIDE DEF r
<1>8. book' \in Book /\ book'.status = book.status
      /\ (book'.count = book.count \/ (r.to = "completed" /\ book'.count = r.b.count + 1))
  BY <1>6, <1>7, FilledFits
<1>9. book'.count <= 1 + completions
  BY <1>2, <1>5, <1>6, <1>8 DEF Inv, Stored
<1>10. Grows
  BY <1>1, <1>2, <1>8 DEF Grows
<1>11. BookFits'
  BY <1>1, <1>8, <1>9 DEF BookFits, Inv, Stored
<1>12. OpsFit'
  BY <1>1, <1>10, Passes
<1>13. OtherFits'
  BY <1>1 DEF Inv, TypeOK, OtherFits
<1> QED
  BY <1>1, <1>10, <1>11, <1>12, <1>13, Kept, Together

\* Hardcover is told of a status that was earned.
LEMMA ToldFits ==
  ASSUME Inv, NEW h \in HcBooks, NEW status \in HcStatuses, NEW answer, remote' = Told(remote, h, status, answer),
         earned => earned', status = Read => earned'
  PROVE  MirrorFits'
<1>1. remote \in [HcBooks -> Remote] /\ \A g \in HcBooks : remote[g].status = Read => earned
  BY Parts DEF MirrorFits
<1>2. CASE remote' = remote
  BY <1>1, <1>2 DEF MirrorFits
<1>3. CASE remote' = [remote EXCEPT ![h].status = status]
  <2>1. PICK row \in Remote : row = remote[h]
    BY <1>1
  <2> DEFINE new == [row EXCEPT !.status = status]
  <2>2. new \in Remote /\ new.status = status
    BY DEF Remote
  <2>3. remote' = [remote EXCEPT ![h] = new]
    BY <1>3, <2>1
  <2> HIDE DEF new
  <2> QED
    BY <1>1, <2>2, <2>3 DEF MirrorFits
<1> QED
  BY <1>2, <1>3 DEF Told

LEMMA HcStatusOf ==
  ASSUME NEW to \in Statuses
  PROVE  LocalToHc[to] \in HcStatuses /\ (LocalToHc[to] = Read <=> to = "completed")
  BY DEF Statuses, LocalToHc, HcStatuses, NoBook, WantToRead, CurrentlyReading, Read, Paused, Dnf, Ignored

\* An operation at a step past its save has earned what it finishes.
LEMMA AtStep ==
  ASSUME Inv, NEW o \in Ops, NEW step, At(o, step)
  PROVE  /\ op[o] \in Operation /\ Fits(op[o]) /\ First(op[o], step) /\ op[o].todo # << >>
         /\ Program(op[o].todo) /\ op[o].todo[1] = step /\ step \in Left(op[o].todo)
         /\ step \notin {"save", "check"} /\ (op[o].pct > 99 \/ op[o].to = "completed") => earned
         /\ step \in {"status", "cache"} => op[o].to \in Statuses
         /\ step \in ForBook \cup PushSteps => op[o].d.hc \in HcBooks
         /\ step \in PushSteps \ {"adopt"} => op[o].d.user \in HcBooks
         /\ recovered \/ WholeLink(op[o].d)
<1> DEFINE r == op[o]
<1>1. r \in Operation /\ Fits(r) /\ r.todo # << >> /\ Head(r.todo) = step /\ Program(r.todo)
  BY DEF Inv, TypeOK, At, Fits
<1>2. r.todo[1] = step /\ step \in Left(r.todo)
  BY <1>1, RestFits
<1> HIDE DEF r
<1>3. First(r, step) /\ (step \notin {"save", "check"} => ~First(r, "save") /\ ~First(r, "check"))
  BY <1>1 DEF First
<1>4. Loaded(r) /\ EarnedBy(r) /\ (recovered \/ WholeLink(r.d))
  BY <1>1 DEF Fits
<1>5. step \notin {"save", "check"} /\ (r.pct > 99 \/ r.to = "completed") => earned
  BY <1>1, <1>3, <1>4 DEF EarnedBy
<1>6. /\ step \in {"status", "cache"} => r.to \in Statuses
      /\ step \in ForBook \cup PushSteps => r.d.hc \in HcBooks
      /\ step \in PushSteps \ {"adopt"} => r.d.user \in HcBooks
  BY <1>2, <1>3, <1>4 DEF Loaded
<1> QED
  BY <1>1, <1>2, <1>3, <1>4, <1>5, <1>6 DEF r

LEMMA TellFits ==
  ASSUME Inv, NEW o \in Ops, TellStatus(o)
  PROVE  Inv'
<1>1. /\ UNCHANGED <<book, journal, progress, completions, earned, tbr, details, sent, grimmory, recovered, apart, requests>>
      /\ At(o, "status")
  BY DEF TellStatus, local
<1>2. Grows
  BY <1>1, StillGrows
<1> DEFINE r == op[o]
           s == r.todo
           rest == Tail(s)
           last == Tail(rest)
<1>3. /\ r \in Operation /\ s # << >> /\ Program(s) /\ s[1] = "status" /\ r.to \in Statuses
      /\ (r.to = "completed" => earned) /\ (recovered \/ WholeLink(r.d)) /\ Head(s) = "status"
  BY <1>1, AtStep DEF At
<1>4. CASE details.hc = None
  <2>1. op' = Go(o, r, last) /\ UNCHANGED <<remote, faults>>
    BY <1>4 DEF TellStatus, Rest
  <2> HIDE DEF last
  <2>2. /\ Program(rest) /\ Left(rest) \subseteq Left(s) /\ "save" \notin Left(rest)
        /\ rest # << >> /\ rest[1] = "cache"
    <3> HIDE DEF s
    <3>1. /\ Program(rest) /\ Left(rest) \subseteq Left(s) /\ "save" \notin Left(rest)
          /\ s[1] \in Pushes \cup {"status"} => rest # << >> /\ rest[1] = After[s[1]]
      BY <1>3, RestFits DEF Leads
    <3> QED
      BY <1>3, <3>1 DEF After
  <2> HIDE DEF rest
  <2>3. /\ Program(last) /\ Left(last) \subseteq Left(s) /\ "save" \notin Left(last)
        /\ last # << >> => last[1] \notin PushSteps
    <3> HIDE DEF s
    <3>1. /\ Program(last) /\ Left(last) \subseteq Left(rest) /\ "save" \notin Left(last)
          /\ last # << >> /\ last[1] \in PushSteps => rest[1] \in Pushes
      BY <2>2, RestFits DEF last
    <3> QED
      BY <2>2, <3>1 DEF Pushes
  <2>4. /\ op[o].todo # << >> /\ Head(op[o].todo) \notin {"save", "check"}
        /\ Left(last) \subseteq Left(op[o].todo)
        /\ r.b = op[o].b /\ r.to = op[o].to /\ r.pct = op[o].pct /\ r.d = op[o].d
    BY <1>3, <2>3
  <2>5. recovered' \/ WholeLink(r.d)
    BY <1>1, <1>3
  <2> HIDE DEF r
  <2>6. OpsFit'
    BY <1>2, <1>3, <2>1, <2>3, <2>4, <2>5, GoesOn
  <2>7. OtherFits'
    BY <1>1, <2>1 DEF Inv, TypeOK, OtherFits
  <2> QED
    BY <1>1, <1>2, <2>1, <2>6, <2>7, Kept, Together
<1>5. CASE details.hc # None
  <2>1. PICK answer \in Answers :
          /\ Call(answer)
          /\ remote' = Told(remote, details.hc, LocalToHc[r.to], answer)
          /\ Reads(o, [r EXCEPT !.d = details])
    BY <1>5 DEF TellStatus
  <2>2. PICK d \in Details : d = details /\ d.hc \in HcBooks /\ (recovered \/ WholeLink(d))
    BY <1>5 DEF Inv, TypeOK, Stored, Details
  <2>3. MirrorFits'
    <3>1. LocalToHc[r.to] \in HcStatuses /\ (LocalToHc[r.to] = Read => earned')
      BY <1>1, <1>3, HcStatusOf
    <3>2. PICK status \in HcStatuses : status = LocalToHc[r.to]
      BY <3>1
    <3> QED
      BY <1>1, <2>1, <2>2, <3>1, <3>2, ToldFits
  <2>4. OtherFits'
    BY <1>1, <2>1, CallFits DEF Inv, TypeOK, OtherFits
  <2> DEFINE q == [r EXCEPT !.d = d]
  <2>5. q \in Operation /\ q.d = d /\ q.b = op[o].b /\ q.to = op[o].to /\ q.pct = op[o].pct /\ Reads(o, q)
    BY <1>3, <2>1, <2>2, WithDetails
  <2> HIDE DEF q, r
  <2>6. "status" \notin Pushes
    BY DEF Pushes
  <2>7. OpsFit'
    BY <1>1, <1>2, <2>2, <2>5, <2>6, ReadsOn
  <2> QED
    BY <1>1, <1>2, <2>3, <2>4, <2>7, Kept, Together
<1> QED
  BY <1>4, <1>5

\* Details saved by an operation.
LEMMA SavedFits ==
  ASSUME NEW d \in Details, recovered' \/ WholeLink(d), details' = SavedDetails(details, d)
  PROVE  LinkFits'
  BY DEF SavedDetails, LinkFits, WholeLink

\* The cached status is no part of the link.
LEMMA WithStatus ==
  ASSUME NEW d \in Details, NEW status \in HcStatuses
  PROVE  LET e == [d EXCEPT !.status = status] IN
         /\ e \in Details /\ e.hc = d.hc /\ e.user = d.user /\ e.read = d.read /\ e.edition = d.edition
         /\ WholeLink(d) => WholeLink(e)
  BY DEF Details, WholeLink

LEMMA CacheFits ==
  ASSUME Inv, NEW o \in Ops, CacheStatus(o)
  PROVE  Inv'
<1>1. /\ UNCHANGED <<book, journal, progress, completions, earned, tbr, remote, sent, grimmory, recovered, apart, requests, faults>>
      /\ At(o, "cache") /\ Reads(o, op[o])
      /\ details' = SavedDetails(details, [op[o].d EXCEPT !.status = LocalToHc[op[o].to]])
  BY DEF CacheStatus, local
<1>2. Grows
  BY <1>1, StillGrows
<1>3. op[o].to \in Statuses /\ op[o].d \in Details /\ (recovered \/ WholeLink(op[o].d))
  BY <1>1, AtStep DEF Operation
<1>4. PICK status \in HcStatuses : status = LocalToHc[op[o].to]
  BY <1>3, HcStatusOf
<1>5. PICK d \in Details : d = op[o].d /\ (recovered \/ WholeLink(d))
  BY <1>3
<1> DEFINE e == [d EXCEPT !.status = status]
<1>6. e \in Details /\ (recovered' \/ WholeLink(e)) /\ details' = SavedDetails(details, e)
  BY <1>1, <1>4, <1>5, WithStatus
<1> HIDE DEF e
<1>7. LinkFits'
  BY <1>6, SavedFits
<1>8. OpsFit'
  BY <1>1, <1>2, Passes
<1>9. OtherFits'
  BY <1>1 DEF Inv, TypeOK, OtherFits
<1> QED
  BY <1>1, <1>2, <1>7, <1>8, <1>9, Kept, Together

LEMMA UnlistFits ==
  ASSUME Inv, NEW o \in Ops, Unlist(o)
  PROVE  Inv'
<1>1. /\ UNCHANGED <<book, journal, progress, completions, earned, details, remote, sent, grimmory, recovered, apart, requests, faults>>
      /\ At(o, "unlist") /\ Reads(o, op[o]) /\ tbr' = Cleaned(tbr, details.hc)
  BY DEF Unlist, local, mirror
<1>2. Grows
  BY <1>1, StillGrows
<1>3. tbr \in [ItemIds -> Item \cup {None}]
  BY DEF Inv, TypeOK
<1>4. ListFits'
  BY <1>1, <1>3 DEF Cleaned, ListFits
<1>5. OpsFit'
  BY <1>1, <1>2, Passes
<1>6. OtherFits'
  BY <1>1 DEF Inv, TypeOK, OtherFits
<1> QED
  BY <1>1, <1>2, <1>4, <1>5, <1>6, Kept, Together

LEMMA GrimmoryFits ==
  ASSUME Inv, NEW o \in Ops, TellGrimmory(o) \/ Finish(o)
  PROVE  Inv'
<1>1. /\ UNCHANGED <<book, journal, progress, completions, earned, tbr, details, remote, sent, recovered, apart, requests>>
      /\ At(o, "grimmory") \/ At(o, "finish")
      /\ Reads(o, op[o])
  BY DEF TellGrimmory, Finish, local, mirror
<1>2. Grows
  BY <1>1, StillGrows
<1>3. PICK answer \in Answers :
        /\ Call(answer)
        /\ grimmory' \in {grimmory, "READ", GrimmoryStatus(op[o].from, op[o].to)}
  BY DEF TellGrimmory, Finish, Answers
<1>4. OtherFits'
  <2>1. GrimmoryStatus(op[o].from, op[o].to) \in {grimmory, "READING", "READ"}
    BY DEF GrimmoryStatus
  <2>2. grimmory' \in {"unset", "READING", "READ"}
    BY <1>3, <2>1 DEF Inv, TypeOK
  <2>3. faults' \in 0 .. MaxFaults
    BY <1>3, CallFits
  <2> QED
    BY <1>1, <2>2, <2>3 DEF Inv, TypeOK, OtherFits
<1>5. OpsFit'
  BY <1>1, <1>2, Passes
<1> QED
  BY <1>1, <1>2, <1>4, <1>5, Kept, Together

-----------------------------------------------------------------------------
(***************************************************************************)
(* The steps of a push.                                                    *)
(***************************************************************************)
\* A push of a new link takes the book and the place as they are now.
LEMMA InitialFits ==
  ASSUME Inv, NEW o \in Ops, Initial(o)
  PROVE  Inv'
<1>1. /\ UNCHANGED <<book, journal, progress, completions, earned, tbr, details, remote, sent, grimmory,
                     recovered, apart, requests, faults>>
      /\ At(o, "initial")
  BY DEF Initial, local, mirror
<1>2. Grows
  BY <1>1, StillGrows
<1>3. OpsFit'
  <2>1. CASE GivesUp(o)
    BY <1>1, <1>2, <2>1, Stops DEF Pushes
  <2>2. CASE Reads(o, [op[o] EXCEPT !.pct = progress, !.b = book])
    <3> DEFINE r == op[o]
               s == r.todo
               rest == Tail(s)
    <3>1. /\ r \in Operation /\ Fits(r) /\ s # << >> /\ Program(s) /\ s[1] = "initial" /\ "initial" \in Left(s)
          /\ (r.to = "completed" => earned) /\ (recovered \/ WholeLink(r.d))
      BY <1>1, AtStep
    <3>2. PICK b \in Book : b = book
      BY DEF Inv, TypeOK
    <3>3. PICK pct \in 0 .. 100 : pct = progress
      BY DEF Inv, TypeOK
    <3> DEFINE one == [r EXCEPT !.pct = pct]
               t == [one EXCEPT !.b = b]
    <3>4. op' = Go(o, t, rest)
      <4>1. t = [op[o] EXCEPT !.pct = progress, !.b = book]
        BY <3>2, <3>3
      <4> QED
        BY <2>2, <4>1 DEF Reads, Rest
    <3> HIDE DEF r
    <3>5. one \in Operation /\ one.pct = pct /\ one.d = r.d /\ one.to = r.to
      BY <3>1, WithPct
    <3> HIDE DEF one
    <3>6. t \in Operation /\ t.b = book /\ t.pct = progress /\ t.d = r.d /\ t.to = r.to
      BY <3>2, <3>3, <3>5, WithBook
    <3> HIDE DEF t, s
    <3>7. /\ Program(rest) /\ Left(rest) \subseteq Left(s) /\ "save" \notin Left(rest)
          /\ rest # << >> /\ rest[1] = "push"
      <4>1. /\ Program(rest) /\ Left(rest) \subseteq Left(s) /\ "save" \notin Left(rest)
            /\ s[1] \in Pushes \cup {"status"} => rest # << >> /\ rest[1] = After[s[1]]
        BY <3>1, RestFits DEF Leads
      <4> QED
        BY <3>1, <4>1 DEF After, Pushes
    <3> HIDE DEF rest
    <3>8. rest \in Seq(Steps) /\ Head(rest) = "push"
      BY <3>7, RestFits DEF Program
    <3>9. PICK q \in Operation : /\ op' = [op EXCEPT ![o] = q] /\ q.todo = rest /\ Same(q, t)
      BY <3>4, <3>6, <3>7, <3>8, GoFits DEF Inv
    <3>10. q.b = book /\ q.pct = progress /\ q.d = r.d /\ q.to = r.to /\ \A step : First(q, step) <=> step = "push"
      BY <3>6, <3>7, <3>8, <3>9 DEF Same, First
    <3>11. Left(rest) \cap {"save", "dates", "check", "mark"} = {}
      BY <3>1, <3>7 DEF Fits, Loaded, s
    <3>12. Loaded(q)
      <4>1. Loaded(r)
        BY <3>1 DEF Fits
      <4>2. "push" \notin PushSteps
        BY DEF PushSteps
      <4> QED
        BY <3>7, <3>9, <3>10, <3>11, <4>1, <4>2 DEF Loaded, s
    <3>13. Counted(q)'
      BY <1>1, <3>9, <3>10, <3>11 DEF Counted, Inv, Stored
    <3>14. EarnedBy(q)'
      BY <1>1, <3>1, <3>9, <3>10 DEF EarnedBy, Inv, Stored
    <3>15. Fits(q)'
      BY <1>1, <3>1, <3>7, <3>9, <3>10, <3>12, <3>13, <3>14 DEF Fits
    <3> QED
      BY <1>2, <3>9, <3>15, OpGoes
  <2> QED
    BY <2>1, <2>2 DEF Initial
<1>4. OtherFits'
  BY <1>1 DEF Inv, TypeOK, OtherFits
<1> QED
  BY <1>1, <1>2, <1>3, <1>4, Kept, Together

LEMMA PushStepFits ==
  ASSUME Inv, NEW o \in Ops, Push(o)
  PROVE  Inv'
<1>1. /\ UNCHANGED <<book, journal, progress, completions, earned, tbr, details, remote, sent, grimmory,
                     recovered, apart, requests, faults>>
      /\ At(o, "push")
  BY DEF Push, local, mirror
<1>2. Grows
  BY <1>1, StillGrows
<1>3. OpsFit'
  <2>1. CASE GivesUp(o)
    BY <1>1, <1>2, <2>1, Stops DEF Pushes
  <2>2. CASE details.hc # None /\ Reads(o, [op[o] EXCEPT !.d = details])
    <3>1. PICK d \in Details : d = details /\ d.hc \in HcBooks /\ (recovered \/ WholeLink(d))
      BY <2>2 DEF Inv, TypeOK, Stored, Details
    <3>2. op[o] \in Operation
      BY DEF Inv, TypeOK
    <3> DEFINE q == [op[o] EXCEPT !.d = d]
    <3>3. q \in Operation /\ q.d = d /\ q.b = op[o].b /\ q.to = op[o].to /\ q.pct = op[o].pct /\ Reads(o, q)
      BY <2>2, <3>1, <3>2, WithDetails
    <3> HIDE DEF q
    <3> QED
      BY <1>1, <1>2, <3>1, <3>3, ReadsOn
  <2> QED
    BY <2>1, <2>2 DEF Push
<1>4. OtherFits'
  BY <1>1 DEF Inv, TypeOK, OtherFits
<1> QED
  BY <1>1, <1>2, <1>3, <1>4, Kept, Together

\* The entry found at Hardcover is the linked book's own.
LEMMA AdoptedFits ==
  ASSUME TypeOK, NEW d \in Details, d.hc \in HcBooks
  PROVE  LET e == Adopted(d, remote) IN
         e \in Details /\ e.hc = d.hc /\ e.user = d.hc /\ (WholeLink(d) => WholeLink(e))
<1>1. PICK status \in HcStatuses : status = remote[d.hc].status
  BY DEF TypeOK, Remote
<1>2. PICK h \in HcBooks : h = d.hc
  OBVIOUS
<1> DEFINE one == [d EXCEPT !.user = h]
           e == [one EXCEPT !.status = status]
<1>3. Adopted(d, remote) = e
  BY <1>1, <1>2 DEF Adopted
<1>4. one \in Details /\ one.hc = d.hc /\ one.user = h /\ one.edition = d.edition /\ one.read = d.read
  BY DEF Details
<1> HIDE DEF one
<1>5. e \in Details /\ e.hc = d.hc /\ e.user = h /\ e.edition = d.edition /\ e.read = d.read
  BY <1>4, WithStatus
<1> HIDE DEF e
<1>6. WholeLink(d) => WholeLink(e)
  BY <1>2, <1>5, HardcoverAssumption DEF WholeLink
<1> QED
  BY <1>2, <1>3, <1>5, <1>6

LEMMA AdoptFits ==
  ASSUME Inv, NEW o \in Ops, Adopt(o)
  PROVE  Inv'
<1>1. /\ UNCHANGED <<book, journal, progress, completions, earned, tbr, remote, sent, grimmory, recovered, apart, requests>>
      /\ At(o, "adopt")
  BY DEF Adopt, local
<1>2. Grows
  BY <1>1, StillGrows
<1> DEFINE r == op[o]
<1>3. r \in Operation /\ r.d \in Details /\ r.d.hc \in HcBooks /\ (recovered \/ WholeLink(r.d))
  BY <1>1, AtStep DEF PushSteps, Operation
<1>4. "adopt" \in Pushes /\ "adopt" \notin {"save", "check"}
  BY DEF Pushes
<1>5. OpsFit' /\ LinkFits' /\ faults' \in 0 .. MaxFaults
  <2>1. CASE r.d.user # None
    <3>1. Reads(o, r) /\ UNCHANGED <<details, faults>>
      BY <2>1 DEF Adopt
    <3>2. r.b = op[o].b /\ r.to = op[o].to /\ r.pct = op[o].pct /\ r.d = op[o].d /\ r.d.user \in HcBooks
      BY <1>3, <2>1 DEF Details
    <3> HIDE DEF r
    <3>3. OpsFit'
      BY <1>1, <1>2, <1>3, <1>4, <3>1, <3>2, ReadsOn
    <3> QED
      BY <1>2, <3>1, <3>3, Kept DEF Inv, TypeOK
  <2>2. CASE r.d.user = None
    <3> DEFINE e == Adopted(r.d, remote)
    <3>1. PICK answer \in Answers :
            /\ Call(answer)
            /\ \/ details' = SavedDetails(details, e) /\ Reads(o, [r EXCEPT !.d = e])
               \/ GivesUp(o) /\ UNCHANGED details
      BY <2>2 DEF Adopt, Answers
    <3>2. e \in Details /\ e.hc \in HcBooks /\ e.user \in HcBooks /\ (recovered' \/ WholeLink(e))
      BY <1>1, <1>3, AdoptedFits DEF Inv
    <3> HIDE DEF e
    <3>3. faults' \in 0 .. MaxFaults
      BY <3>1, CallFits
    <3>4. CASE details' = SavedDetails(details, e) /\ Reads(o, [r EXCEPT !.d = e])
      <4>1. LinkFits'
        BY <3>2, <3>4, SavedFits
      <4> DEFINE q == [r EXCEPT !.d = e]
      <4>2. q \in Operation /\ q.d = e /\ q.b = op[o].b /\ q.to = op[o].to /\ q.pct = op[o].pct /\ Reads(o, q)
        BY <1>3, <3>2, <3>4, WithDetails
      <4> HIDE DEF q
      <4>3. OpsFit'
        BY <1>1, <1>2, <1>4, <3>2, <4>2, ReadsOn
      <4> QED
        BY <3>3, <4>1, <4>3
    <3>5. CASE GivesUp(o) /\ UNCHANGED details
      BY <1>1, <1>2, <1>4, <3>3, <3>5, Stops, Kept
    <3> QED
      BY <3>1, <3>3, <3>4, <3>5
  <2> QED
    BY <2>1, <2>2
<1>6. OtherFits'
  BY <1>1, <1>5 DEF Inv, TypeOK, OtherFits
<1> QED
  BY <1>1, <1>2, <1>5, <1>6, Kept, Together

\* The edition resolved is the linked book's, or there is none.
LEMMA ResolvedFits ==
  ASSUME NEW d \in Details, d.hc \in HcBooks, NEW answer
  PROVE  LET e == Resolved(d, answer) IN
         e \in Details /\ e.hc = d.hc /\ e.user = d.user /\ (WholeLink(d) => WholeLink(e))
<1>1. CASE Resolved(d, answer) = d
  BY <1>1
<1>2. ASSUME NEW edition \in {d.hc, "none"}, Resolved(d, answer) = [d EXCEPT !.edition = edition]
      PROVE  LET e == Resolved(d, answer) IN
             e \in Details /\ e.hc = d.hc /\ e.user = d.user /\ (WholeLink(d) => WholeLink(e))
  <2> DEFINE e == [d EXCEPT !.edition = edition]
  <2>1. e \in Details /\ e.hc = d.hc /\ e.user = d.user /\ e.edition = edition /\ e.read = d.read
    BY DEF Details
  <2> HIDE DEF e
  <2> QED
    BY <1>2, <2>1 DEF WholeLink, e
<1> QED
  BY <1>1, <1>2 DEF Resolved

LEMMA EditionsFit ==
  ASSUME Inv, NEW o \in Ops, Editions(o)
  PROVE  Inv'
<1>1. /\ UNCHANGED <<book, journal, progress, completions, earned, tbr, remote, sent, grimmory, recovered, apart, requests>>
      /\ At(o, "editions") \/ At(o, "resolve")
  BY DEF Editions, local
<1>2. PICK step \in {"editions", "resolve"} : At(o, step)
  BY <1>1
<1>3. Grows
  BY <1>1, StillGrows
<1> DEFINE r == op[o]
<1>4. /\ r \in Operation /\ r.d \in Details /\ r.d.hc \in HcBooks /\ (recovered \/ WholeLink(r.d))
      /\ step = "resolve" => r.d.user \in HcBooks
  BY <1>2, AtStep DEF PushSteps, ForBook, Operation
<1>5. PICK answer \in Answers :
        /\ Call(answer)
        /\ details' = IF r.d.edition = None THEN SavedDetails(details, Resolved(r.d, answer)) ELSE details
        /\ IF Resolved(r.d, answer).edition = "none" /\ At(o, "resolve")
           THEN op' = Go(o, r, AfterPush(o))
           ELSE Reads(o, [r EXCEPT !.d = Resolved(r.d, answer)])
  BY DEF Editions, Answers
<1> DEFINE e == Resolved(r.d, answer)
<1>6. e \in Details /\ e.hc = r.d.hc /\ e.user = r.d.user /\ (recovered' \/ WholeLink(e))
  BY <1>1, <1>4, ResolvedFits
<1> HIDE DEF e
<1>7. LinkFits'
  <2>1. CASE details' = SavedDetails(details, e)
    BY <1>6, <2>1, SavedFits
  <2>2. CASE UNCHANGED details
    BY <1>3, <2>2, Kept
  <2> QED
    BY <1>5, <2>1, <2>2 DEF e
<1>8. OpsFit'
  <2>1. CASE At(o, "resolve") /\ op' = Go(o, op[o], AfterPush(o))
    BY <1>3, <2>1, Stops DEF Pushes
  <2>2. CASE Reads(o, [r EXCEPT !.d = e])
    <3> DEFINE q == [r EXCEPT !.d = e]
    <3>1. q \in Operation /\ q.d = e /\ q.b = op[o].b /\ q.to = op[o].to /\ q.pct = op[o].pct /\ Reads(o, q)
      BY <1>4, <1>6, <2>2, WithDetails
    <3> HIDE DEF q
    <3>2. /\ step \in Pushes \ {"initial"} => e.hc \in HcBooks
          /\ step \in Pushes \ {"initial", "push"} => e.user \in HcBooks
      BY <1>4, <1>6 DEF Pushes
    <3>3. e.hc \in HcBooks /\ step \notin {"save", "check"}
      BY <1>4, <1>6
    <3> HIDE DEF r
    <3> QED
      BY <1>2, <1>3, <1>6, <3>1, <3>2, <3>3, ReadsOn
  <2> QED
    BY <1>5, <2>1, <2>2 DEF e
<1>9. OtherFits'
  BY <1>1, <1>5, CallFits DEF Inv, TypeOK, OtherFits
<1> QED
  BY <1>1, <1>3, <1>7, <1>8, <1>9, Kept, Together

\* A push asks for the status read above 99 % only.
LEMMA StatusForFits ==
  ASSUME NEW d \in Details, NEW pct \in 0 .. 100
  PROVE  LET status == StatusFor(Cached(d), pct) IN
         status \in HcStatuses /\ (status = Read /\ status # Cached(d) => pct > 99)
<1>1. Cached(d) \in HcStatuses /\ Read \in HcStatuses /\ CurrentlyReading \in HcStatuses /\ CurrentlyReading # Read
  BY DEF Cached, Details, HcStatuses, NoBook, WantToRead, CurrentlyReading, Read, Ignored
<1> QED
  BY <1>1 DEF StatusFor

LEMMA AdvanceFits ==
  ASSUME Inv, NEW o \in Ops, Advance(o)
  PROVE  Inv'
<1>1. /\ UNCHANGED <<book, journal, progress, completions, earned, tbr, sent, grimmory, recovered, apart, requests>>
      /\ At(o, "advance")
  BY DEF Advance, local
<1>2. Grows
  BY <1>1, StillGrows
<1> DEFINE r == op[o]
<1>3. /\ r \in Operation /\ r.d \in Details /\ r.d.hc \in HcBooks /\ r.d.user \in HcBooks
      /\ (recovered \/ WholeLink(r.d)) /\ r.pct \in 0 .. 100 /\ (r.pct > 99 => earned)
  <2>1. "advance" \in PushSteps \ {"adopt"} /\ "advance" \notin {"save", "check"}
    BY DEF PushSteps
  <2>2. /\ r \in Operation /\ r.d.hc \in HcBooks /\ r.d.user \in HcBooks
        /\ (recovered \/ WholeLink(r.d)) /\ (r.pct > 99 => earned)
    BY <1>1, <2>1, AtStep
  <2> HIDE DEF r
  <2> QED
    BY <2>2 DEF Operation
<1>4. PICK status \in HcStatuses : status = StatusFor(Cached(r.d), r.pct)
                                   /\ (status = Read /\ status # Cached(r.d) => earned')
  BY <1>1, <1>3, StatusForFits
<1>5. PICK d \in Details : d = r.d
  BY <1>3
<1>6. CASE status = Cached(r.d)
  <2>1. Reads(o, op[o]) /\ UNCHANGED <<details, remote, faults>>
    BY <1>4, <1>6 DEF Advance
  <2>2. OpsFit'
    BY <1>1, <1>2, <2>1, Passes
  <2>3. OtherFits'
    BY <1>1, <2>1 DEF Inv, TypeOK, OtherFits
  <2> QED
    BY <1>1, <1>2, <2>1, <2>2, <2>3, Kept, Together
<1>7. CASE status # Cached(r.d)
  <2> DEFINE e == [d EXCEPT !.status = status]
             q == [r EXCEPT !.d = e]
  <2>1. PICK answer \in Answers :
          /\ Call(answer)
          /\ remote' = Told(remote, d.hc, status, answer)
          /\ details' = SavedDetails(details, e)
          /\ Reads(o, [r EXCEPT !.d.status = status])
    BY <1>4, <1>5, <1>7 DEF Advance
  <2>2. [r EXCEPT !.d.status = status] = q
    BY <1>5
  <2>3. e \in Details /\ e.hc = d.hc /\ e.user = d.user /\ (recovered' \/ WholeLink(e))
    BY <1>1, <1>3, <1>5, WithStatus
  <2> HIDE DEF e
  <2>4. q \in Operation /\ q.d = e /\ q.b = op[o].b /\ q.to = op[o].to /\ q.pct = op[o].pct /\ Reads(o, q)
    BY <1>3, <2>1, <2>2, <2>3, WithDetails
  <2> HIDE DEF q
  <2>5. OpsFit'
    <3>1. e.hc \in HcBooks /\ e.user \in HcBooks /\ "advance" \notin {"save", "check"}
      BY <1>3, <1>5, <2>3
    <3> HIDE DEF r
    <3> QED
      BY <1>1, <1>2, <2>3, <2>4, <3>1, ReadsOn
  <2>6. MirrorFits'
    <3>1. d.hc \in HcBooks /\ (status = Read => earned') /\ (earned => earned')
      BY <1>1, <1>3, <1>4, <1>5, <1>7
    <3> QED
      BY <2>1, <3>1, ToldFits
  <2>7. LinkFits'
    BY <2>1, <2>3, SavedFits
  <2>8. OtherFits'
    BY <1>1, <2>1, CallFits DEF Inv, TypeOK, OtherFits
  <2> QED
    BY <1>1, <1>2, <2>5, <2>6, <2>7, <2>8, Kept, Together
<1> QED
  BY <1>6, <1>7

\* A read of an entry is changed or the next one made.
LEMMA WithReadFits ==
  ASSUME Inv, NEW h \in HcBooks, NEW n \in Nat, n \in 1 .. Len(remote[h].reads) + 1, NEW row \in ReadRow,
         remote' = WithRead(remote, h, n, row), earned => earned'
  PROVE  MirrorFits'
<1>1. remote \in [HcBooks -> Remote] /\ \A g \in HcBooks : remote[g].status = Read => earned
  BY Parts DEF MirrorFits
<1>2. PICK entry \in Remote : entry = remote[h]
  BY <1>1
<1> DEFINE old == entry.reads
           len == IF n > Len(old) THEN n ELSE Len(old)
           reads == [i \in 1 .. len |-> IF i = n THEN row ELSE old[i]]
           new == [entry EXCEPT !.reads = reads]
<1>3. old \in Seq(ReadRow) /\ Len(old) \in Nat /\ n \in 1 .. Len(old) + 1
  BY <1>2 DEF Remote
<1>4. \A i \in 1 .. Len(old) : old[i] \in ReadRow
  BY <1>3
<1>5. remote' = [remote EXCEPT ![h] = new]
  BY <1>2 DEF WithRead
<1>6. reads \in Seq(ReadRow)
  <2>1. len \in Nat /\ \A i \in 1 .. len : i = n \/ i \in 1 .. Len(old)
    BY <1>3
  <2>2. \A i \in 1 .. len : (IF i = n THEN row ELSE old[i]) \in ReadRow
    BY <1>4, <2>1
  <2> HIDE DEF len
  <2> QED
    BY <2>1, <2>2
<1> HIDE DEF reads
<1>7. new \in Remote /\ new.status = entry.status
  BY <1>6 DEF Remote
<1> HIDE DEF new
<1> QED
  BY <1>1, <1>2, <1>5, <1>7 DEF MirrorFits

Rows == [started : Dates \cup {NotADate}, finished : Dates \cup {NotADate}]

LEMMA LastRow ==
  ASSUME TypeOK, NEW h \in HcBooks
  PROVE  /\ remote[h].reads \in Seq(ReadRow) /\ Len(remote[h].reads) \in Nat
         /\ remote[h].reads # << >> => remote[h].reads[Len(remote[h].reads)] \in ReadRow
                                       /\ Len(remote[h].reads) # 0
         /\ LastRead(remote, h) \in ReadRow
<1>1. PICK s \in Seq(ReadRow) : s = remote[h].reads
  BY DEF TypeOK, Remote
<1>2. s # << >> => s[Len(s)] \in ReadRow /\ Len(s) # 0
  BY EmptySeq
<1>3. LastRead(remote, h) \in ReadRow
  BY <1>1, <1>2 DEF LastRead, ReadRow, Dates
<1> QED
  BY <1>1, <1>2, <1>3

\* What is sent of the dates is a row; a cached read, no date.
LEMMA SentRow ==
  ASSUME TypeOK, NEW d \in Details, d.user \in HcBooks, NEW b \in Book, NEW pct \in 0 .. 100, NEW lookup
  PROVE  LET dates == SentDates(d, remote, b, pct, lookup)
             n     == ReadTarget(d, remote, lookup)
         IN  /\ dates \in Rows /\ n \in Nat
             /\ Accepts(dates) => n \in 1 .. Len(remote[d.user].reads) + 1
<1> DEFINE reads == remote[d.user].reads
           old == IF lookup = "done" /\ reads # << >> THEN reads[Len(reads)]
                  ELSE [started |-> None, finished |-> None]
           dates == SentDates(d, remote, b, pct, lookup)
           n == ReadTarget(d, remote, lookup)
<1>1. /\ Len(reads) \in Nat /\ reads # << >> => reads[Len(reads)] \in ReadRow /\ Len(reads) # 0
  BY LastRow
<1>2. old \in ReadRow
  BY <1>1 DEF ReadRow, Dates
<1>3. b.started \in Dates /\ b.finished \in Dates /\ Day \in Dates /\ d.read \in Nat
  BY DEF Book, Dates, Details
<1>4. CASE d.read # 0
  <2>1. dates = [started |-> NotADate, finished |-> NotADate] /\ n = d.read
    BY <1>4 DEF SentDates, ReadTarget
  <2> HIDE DEF dates, n
  <2>2. ~Accepts(dates)
    BY <2>1, TrackerAssumption DEF Accepts, ReadRow, Dates, NotADate, Day
  <2> QED
    BY <1>3, <2>1, <2>2 DEF Rows, dates, n
<1>5. CASE d.read = 0
  <2> DEFINE x == IF pct > 2 THEN Or(old.started, Or(b.started, Day)) ELSE old.started
             y == IF pct > 99 THEN Or(old.finished, Or(b.finished, Day)) ELSE old.finished
  <2>1. dates = [started |-> x, finished |-> y]
    BY <1>5 DEF SentDates
  <2>2. n \in 1 .. Len(reads) + 1
    BY <1>1, <1>5 DEF ReadTarget
  <2> HIDE DEF old
  <2>3. x \in Dates /\ y \in Dates
    BY <1>2, <1>3 DEF Or, ReadRow
  <2> HIDE DEF x, y, dates, n
  <2> QED
    BY <2>1, <2>2, <2>3 DEF Rows, dates, n
<1> QED
  BY <1>4, <1>5

LEMMA SendFits ==
  ASSUME Inv, NEW o \in Ops, Send(o)
  PROVE  Inv'
<1>1. /\ UNCHANGED <<book, journal, progress, completions, earned, tbr, grimmory, recovered, apart, requests>>
      /\ At(o, "send")
  BY DEF Send, local
<1>2. Grows
  BY <1>1, StillGrows
<1> DEFINE r == op[o]
<1>3. /\ r \in Operation /\ r.d \in Details /\ r.d.user \in HcBooks /\ r.d.hc \in HcBooks
      /\ (recovered \/ WholeLink(r.d)) /\ r.pct \in 0 .. 100 /\ r.b \in Book
  <2>1. "send" \in PushSteps \ {"adopt"}
    BY DEF PushSteps
  <2>2. /\ r \in Operation /\ r.d.hc \in HcBooks /\ r.d.user \in HcBooks
        /\ (recovered \/ WholeLink(r.d))
    BY <1>1, <2>1, AtStep
  <2> HIDE DEF r
  <2> QED
    BY <2>2 DEF Operation
<1>4. PICK d \in Details : d = r.d
  BY <1>3
<1>5. PICK lookup \in {"done", "refused"}, answer \in Answers :
        LET dates == SentDates(d, remote, r.b, r.pct, lookup)
            n     == ReadTarget(d, remote, lookup)
        IN  /\ Call(IF lookup = "done" THEN answer ELSE lookup)
            /\ sent' = dates
            /\ IF Accepts(dates) /\ Took(answer)
               THEN remote' = WithRead(remote, d.user, n, dates)
               ELSE UNCHANGED remote
            /\ IF Accepts(dates) /\ answer = "done"
               THEN /\ details' = SavedDetails(details, [d EXCEPT !.read = n])
                    /\ Reads(o, [r EXCEPT !.d.read = n])
               ELSE GivesUp(o) /\ UNCHANGED details
  BY <1>4 DEF Send
<1> DEFINE dates == SentDates(d, remote, r.b, r.pct, lookup)
           n     == ReadTarget(d, remote, lookup)
<1>6. dates \in Rows /\ n \in Nat /\ (Accepts(dates) => n \in 1 .. Len(remote[d.user].reads) + 1)
  BY <1>3, <1>4, SentRow DEF Inv
<1> HIDE DEF dates, n
<1>7. SentFits'
  BY <1>5, <1>6 DEF SentFits, Rows, dates
<1>8. MirrorFits'
  <2>1. CASE Accepts(dates) /\ remote' = WithRead(remote, d.user, n, dates)
    <3>1. dates \in ReadRow /\ n \in 1 .. Len(remote[d.user].reads) + 1 /\ d.user \in HcBooks
      BY <1>3, <1>4, <1>6, <2>1 DEF Accepts
    <3> QED
      BY <1>1, <1>6, <2>1, <3>1, WithReadFits
  <2>2. CASE UNCHANGED remote
    BY <1>2, <2>2, Kept
  <2> QED
    BY <1>5, <2>1, <2>2 DEF dates, n
<1>9. LinkFits' /\ OpsFit'
  <2>1. CASE GivesUp(o) /\ UNCHANGED details
    BY <1>1, <1>2, <2>1, Stops, Kept
  <2> DEFINE e == [d EXCEPT !.read = n]
  <2>2. CASE details' = SavedDetails(details, e) /\ Reads(o, [r EXCEPT !.d.read = n])
    <3> DEFINE q == [r EXCEPT !.d = e]
    <3>1. [r EXCEPT !.d.read = n] = q
      BY <1>4
    <3>2. e \in Details /\ e.hc = d.hc /\ e.user = d.user /\ e.edition = d.edition
      BY <1>6 DEF Details
    <3>3. recovered' \/ WholeLink(e)
      <4>1. d.user # None
        BY <1>3, <1>4, HardcoverAssumption
      <4> HIDE DEF e
      <4> QED
        BY <1>1, <1>3, <1>4, <3>2, <4>1 DEF WholeLink
    <3> HIDE DEF e
    <3>4. q \in Operation /\ q.d = e /\ q.b = op[o].b /\ q.to = op[o].to /\ q.pct = op[o].pct /\ Reads(o, q)
      BY <1>3, <2>2, <3>1, <3>2, WithDetails
    <3> HIDE DEF q
    <3>5. e.hc \in HcBooks /\ e.user \in HcBooks /\ "send" \notin {"save", "check"}
      BY <1>3, <1>4, <3>2
    <3> HIDE DEF r
    <3>6. OpsFit'
      BY <1>1, <1>2, <3>3, <3>4, <3>5, ReadsOn
    <3>7. LinkFits'
      BY <2>2, <3>2, <3>3, SavedFits
    <3> QED
      BY <3>6, <3>7
  <2> QED
    BY <1>5, <2>1, <2>2 DEF dates, n
<1>10. OtherFits'
  <2>1. PICK a \in Answers : a = (IF lookup = "done" THEN answer ELSE lookup) /\ Call(a)
    BY <1>5 DEF Answers
  <2> QED
    BY <1>1, <2>1, CallFits DEF Inv, TypeOK, OtherFits
<1> QED
  BY <1>1, <1>2, <1>7, <1>8, <1>9, <1>10, Kept, Together

LEMMA RecordFits ==
  ASSUME Inv, NEW o \in Ops, Record(o)
  PROVE  Inv'
<1>1. /\ UNCHANGED <<book, journal, completions, earned, recovered, tbr, details, remote, sent, grimmory,
                     apart, requests, faults>>
      /\ At(o, "record") /\ Reads(o, op[o])
      /\ progress' = IF op[o].pct > progress THEN op[o].pct ELSE progress
  BY DEF Record, history, mirror
<1>2. Grows
  BY <1>1, StillGrows
<1>3. op[o].pct \in 0 .. 100 /\ (op[o].pct > 99 => earned)
  <2>1. op[o] \in Operation /\ (op[o].pct > 99 => earned)
    BY <1>1, AtStep
  <2> QED
    BY <2>1 DEF Operation
<1>4. PlaceFits'
  BY <1>1, <1>3 DEF PlaceFits, Inv, TypeOK, Stored
<1>5. OpsFit'
  BY <1>1, <1>2, Passes
<1>6. OtherFits'
  BY <1>1 DEF Inv, TypeOK, OtherFits
<1> QED
  BY <1>1, <1>2, <1>4, <1>5, <1>6, Kept, Together

-----------------------------------------------------------------------------
(***************************************************************************)
(* The steps that decide what comes next.                                  *)
(***************************************************************************)
\* An operation that goes on with another program, and the book it has loaded.
LEMMA Restarts ==
  ASSUME Inv, NEW o \in Ops, op[o].todo # << >>, UNCHANGED <<book, completions, earned, recovered>>,
         NEW r \in Operation, r.b = op[o].b, r.d = op[o].d, NEW todo, op' = Go(o, r, todo),
         Begins(todo, r, r.b.status, earned)
  PROVE  OpsFit'
<1>1. Grows
  BY StillGrows
<1>2. todo \in Seq(Steps) /\ (todo # << >> => Head(todo) = todo[1])
  BY RestFits DEF Begins, Program
<1>3. completions \in Nat
  BY DEF Inv, TypeOK
<1>4. PICK q \in Operation : /\ op' = [op EXCEPT ![o] = q] /\ q.todo = todo
                             /\ todo # << >> => Same(q, r)
                             /\ todo = << >> => q = Idle
  BY <1>2, GoFits DEF Inv
<1>5. CASE todo = << >>
  <2>1. Fits(q)'
    BY <1>1, <1>3, <1>4, <1>5, IdleFits, StaysFit
  <2> QED
    BY <1>1, <1>4, <2>1, OpGoes
<1>6. CASE todo # << >>
  <2>1. q.b = r.b /\ q.d = r.d /\ q.to = r.to /\ q.pct = r.pct /\ q.todo = todo
    BY <1>4, <1>6 DEF Same
  <2>2. \A step : First(q, step) <=> todo[1] = step
    BY <1>2, <1>6, <2>1 DEF First
  <2> DEFINE old == op[o]
  <2>3. Fits(old) /\ old.todo # << >> /\ r.b = old.b /\ r.d = old.d
    BY DEF Inv
  <2> HIDE DEF old
  <2>4. Loaded(q)
    BY <1>6, <2>1, <2>2 DEF Loaded, Begins
  <2>5. Counted(q)'
    <3>1. "dates" \in Left(q.todo) => First(q, "save")
      BY <2>1, <2>2 DEF Begins
    <3> QED
      BY <2>1, <2>3, <3>1 DEF Counted, Fits
  <2>6. EarnedBy(q)'
    <3>1. r.b.status = "completed" => earned
      BY <2>3 DEF Fits, EarnedBy
    <3> QED
      BY <1>6, <2>1, <2>2, <3>1 DEF EarnedBy, Begins
  <2>7. Fits(q)'
    BY <2>1, <2>3, <2>4, <2>5, <2>6 DEF Fits, Begins
  <2> QED
    BY <1>1, <1>4, <2>7, OpGoes
<1> QED
  BY <1>5, <1>6

LEMMA StoreFits ==
  ASSUME Inv, NEW o \in Ops, StoreManual(o) \/ Mark(o)
  PROVE  Inv'
<1>1. PICK step \in {"set", "mark"} :
        /\ At(o, step)
        /\ progress' \in {op[o].pct, progress} \/ (step = "mark" /\ progress' = 100)
  BY DEF StoreManual, Mark
<1>2. /\ UNCHANGED <<book, journal, completions, earned, recovered, tbr, details, remote, sent, grimmory,
                     apart, requests, faults>>
      /\ Reads(o, op[o])
  BY DEF StoreManual, Mark, history, mirror
<1>3. Grows
  BY <1>2, StillGrows
<1>4. op[o].pct \in 0 .. 100 /\ (op[o].pct > 99 => earned) /\ (step = "mark" => earned)
  <2>1. /\ op[o] \in Operation /\ (op[o].pct > 99 => earned) /\ Fits(op[o]) /\ step \in Left(op[o].todo)
    BY <1>1, AtStep
  <2> QED
    BY <2>1 DEF Operation, Fits, Loaded
<1>5. PlaceFits'
  BY <1>1, <1>2, <1>4 DEF PlaceFits, Inv, TypeOK, Stored
<1>6. step \notin {"save", "check", "push", "adopt"}
  OBVIOUS
<1>7. OpsFit'
  BY <1>1, <1>2, <1>3, <1>6, Passes
<1>8. OtherFits'
  BY <1>2 DEF Inv, TypeOK, OtherFits
<1> QED
  BY <1>2, <1>3, <1>5, <1>7, <1>8, Kept, Together

\* What an operation turns to, once it has looked.
LEMMA TurnedOp ==
  ASSUME Inv, NEW o \in Ops, NEW to \in Statuses, NEW source \in DOMAIN Effects
  PROVE  \E r \in Operation : /\ r = Turn(op[o], to, source) /\ r.to = to /\ r.b = op[o].b
                              /\ r.pct = op[o].pct /\ r.d = op[o].d
<1>1. PICK old \in Operation : old = op[o]
  BY DEF Inv, TypeOK
<1> QED
  BY <1>1, Turned

LEMMA TurnsFit ==
  ASSUME Inv, NEW o \in Ops, op[o].todo # << >>, NEW r \in Operation, r.b = op[o].b, r.d = op[o].d,
         NEW todo, op' = Go(o, r, todo), Begins(todo, r, r.b.status, earned),
         UNCHANGED <<book, journal, tbr, progress, completions, earned, details, remote, sent, grimmory,
                     recovered, apart, requests, faults>>
  PROVE  Inv'
<1>1. Grows
  BY StillGrows
<1>2. OpsFit'
  BY Restarts
<1>3. OtherFits'
  BY DEF Inv, TypeOK, OtherFits
<1> QED
  BY <1>1, <1>2, <1>3, Kept, Together

LEMMA CourseBegins ==
  ASSUME NEW from \in Statuses, NEW to \in Statuses, NEW source \in DOMAIN Effects, NEW r, r.to = to,
         NEW reported, r.pct > 99 => reported, from = to => to # "completed"
  PROVE  Begins(Course(from, to, source), r, from, reported)
<1> DEFINE c == Course(from, to, source)
<1>1. /\ Program(c) /\ Left(c) \subseteq CourseSteps /\ (c # << >> => c[1] \notin PushSteps)
      /\ from # to => c # << >> /\ c[1] = "save"
      /\ from = to => "save" \notin Left(c) /\ "dates" \notin Left(c)
  BY CourseFits
<1>2. c # << >> => c[1] \in Left(c)
  BY <1>1, RestFits
<1> HIDE DEF c
<1>3. Left(c) \cap ForBook = {} /\ "initial" \notin Left(c) /\ Left(c) \cap {"check", "mark"} = {}
  BY <1>1 DEF CourseSteps, ForBook
<1> QED
  BY <1>1, <1>2, <1>3 DEF Begins, c

LEMMA NothingBegins ==
  ASSUME NEW r, NEW status, NEW reported
  PROVE  Begins(<< >>, r, status, reported)
<1> DEFINE c == << >>
<1>1. Program(c) /\ Left(c) = {} /\ c = << >>
  BY NoSteps DEF Block
<1> HIDE DEF c
<1>2. Begins(c, r, status, reported)
  BY <1>1 DEF Begins
<1> QED
  BY <1>2 DEF c

LEMMA VerifyFits ==
  ASSUME Inv, NEW o \in Ops, Verify(o) \/ Probe(o)
  PROVE  Inv'
<1>1. PICK step \in {"verify", "probe"}, to \in {"completed", "active"} :
        /\ At(o, step)
        /\ \/ op' = Go(o, Turn(op[o], to, "completion_sync"), << >>)
           \/ /\ op' = Go(o, Turn(op[o], to, "completion_sync"), Course(op[o].b.status, to, "completion_sync"))
              /\ op[o].b.status = to => to # "completed"
  <2>1. \A to : Turn(op[o], to, "completion_sync").b = op[o].b
    <3>1. PICK r \in Operation : r = op[o]
      BY DEF Inv, TypeOK
    <3> QED
      BY <3>1 DEF Turn, Operation
  <2>2. CASE Verify(o)
    <3>1. /\ At(o, "verify")
          /\ op' = Go(o, Turn(op[o], "completed", "completion_sync"),
                      If(op[o].b.status # "completed", Course(op[o].b.status, "completed", "completion_sync")))
      BY <2>1, <2>2 DEF Verify
    <3> QED
      BY <3>1 DEF If
  <2>3. CASE Probe(o)
    <3>1. PICK p \in Percents :
            op' = Go(o, Turn(op[o], "active", "completion_sync"),
                     If(p > 1, Course(op[o].b.status, "active", "completion_sync")))
      BY <2>1, <2>3 DEF Probe
    <3>2. At(o, "probe")
      BY <2>3 DEF Probe
    <3> QED
      BY <3>1, <3>2 DEF If
  <2> QED
    BY <2>2, <2>3
<1>2. UNCHANGED <<book, journal, tbr, progress, completions, earned, details, remote, sent, grimmory,
                  recovered, apart, requests, faults>>
  BY DEF Verify, Probe, local, mirror
<1>3. /\ op[o] \in Operation /\ op[o].todo # << >> /\ (op[o].pct > 99 => earned) /\ op[o].b.status \in Statuses
  <2>1. op[o] \in Operation /\ op[o].todo # << >> /\ (op[o].pct > 99 => earned)
    BY <1>1, AtStep
  <2> QED
    BY <2>1 DEF Operation, Book
<1>4. to \in Statuses /\ "completion_sync" \in DOMAIN Effects
  BY DEF Statuses, Effects
<1>5. PICK source \in DOMAIN Effects : source = "completion_sync"
  BY <1>4
<1>6. PICK r \in Operation : /\ r = Turn(op[o], to, source) /\ r.to = to /\ r.b = op[o].b
                            /\ r.pct = op[o].pct /\ r.d = op[o].d
  BY <1>4, TurnedOp
<1>7. CASE op' = Go(o, Turn(op[o], to, "completion_sync"), << >>)
  <2>1. op' = Go(o, r, << >>)
    BY <1>5, <1>6, <1>7
  <2> QED
    BY <1>2, <1>3, <1>6, <2>1, NothingBegins, TurnsFit
<1>8. CASE /\ op' = Go(o, Turn(op[o], to, "completion_sync"), Course(op[o].b.status, to, "completion_sync"))
           /\ op[o].b.status = to => to # "completed"
  <2>1. PICK from \in Statuses : from = r.b.status /\ (from = to => to # "completed")
    BY <1>3, <1>6, <1>8
  <2> DEFINE c == Course(from, to, source)
  <2>2. r.pct > 99 => earned
    BY <1>3, <1>6
  <2>3. Begins(c, r, r.b.status, earned)
    BY <1>4, <1>6, <2>1, <2>2, CourseBegins
  <2>4. op' = Go(o, r, c)
    BY <1>5, <1>6, <1>8, <2>1
  <2> HIDE DEF c
  <2> QED
    BY <1>2, <1>3, <1>6, <2>3, <2>4, TurnsFit
<1> QED
  BY <1>1, <1>7, <1>8

\* The auto-completion: the change of status, the push and the mark, of the book that
\* it loaded.
LEMMA CheckFits ==
  ASSUME Inv, NEW o \in Ops, Check(o)
  PROVE  Inv'
<1> DEFINE t == <<"mark", "finish">>
           p == PushCourse \o t
           c == Course(op[o].b.status, "completed", "auto_complete") \o p
<1>1. /\ At(o, "check")
      /\ op' = Go(o, Turn(op[o], "completed", "auto_complete"), c)
         \/ op' = Go(o, Turn(op[o], "completed", "auto_complete"), << >>)
  <2>1. Turn(op[o], "completed", "auto_complete").b = op[o].b
    <3>1. PICK r \in Operation : r = op[o]
      BY DEF Inv, TypeOK
    <3> QED
      BY <3>1 DEF Turn, Operation
  <2>2. PushCourse \o <<"mark", "finish">> = p
    OBVIOUS
  <2>3. Course(op[o].b.status, "completed", "auto_complete") \o PushCourse \o t = c
    OBVIOUS
  <2> QED
    BY <2>1, <2>3 DEF Check, If
<1>2. UNCHANGED <<book, journal, tbr, progress, completions, earned, details, remote, sent, grimmory,
                  recovered, apart, requests, faults>>
  BY DEF Check, local, mirror
<1>3. /\ op[o] \in Operation /\ op[o].todo # << >> /\ op[o].pct > 99 /\ op[o].b.status \in Statuses
      /\ (op[o].b.status = "completed" => earned)
  <2>1. op[o] \in Operation /\ op[o].todo # << >> /\ Fits(op[o]) /\ "check" \in Left(op[o].todo)
    BY <1>1, AtStep
  <2> QED
    BY <2>1 DEF Operation, Book, Fits, Loaded, EarnedBy
<1>4. "completed" \in Statuses /\ "auto_complete" \in DOMAIN Effects
  BY DEF Statuses, Effects
<1>5. PICK r \in Operation : /\ r = Turn(op[o], "completed", "auto_complete") /\ r.to = "completed"
                            /\ r.b = op[o].b /\ r.pct = op[o].pct /\ r.d = op[o].d
  BY <1>4, TurnedOp
<1>6. CASE op' = Go(o, Turn(op[o], "completed", "auto_complete"), << >>)
  <2>1. op' = Go(o, r, << >>)
    BY <1>5, <1>6
  <2> QED
    BY <1>2, <1>3, <1>5, <2>1, NothingBegins, TurnsFit
<1>7. CASE op' = Go(o, Turn(op[o], "completed", "auto_complete"), c)
  <2>1. PICK from \in Statuses : from = op[o].b.status
    BY <1>3
  <2> DEFINE course == Course(from, "completed", "auto_complete")
  <2>2. /\ Program(course) /\ Left(course) \subseteq CourseSteps
        /\ from # "completed" => course # << >> /\ course[1] = "save"
        /\ from = "completed" => course = << >>
    <3>1. /\ Program(course) /\ Left(course) \subseteq CourseSteps
          /\ from # "completed" => course # << >> /\ course[1] = "save"
      BY <1>4, CourseFits
    <3>2. from = "completed" => course = << >>
      BY DEF Course, If
    <3> QED
      BY <3>1, <3>2
  <2>3. Block(t) /\ Left(t) = {"mark", "finish"}
    BY TwoSteps
  <2> HIDE DEF t
  <2>4. Block(p) /\ Left(p) = {"push", "mark", "finish"} \cup PushSteps /\ p # << >> /\ p[1] = "push"
    BY <2>3, PushThen
  <2> HIDE DEF p
  <2>5. c = course \o p
    BY <2>1
  <2> HIDE DEF course
  <2>6. /\ Program(c) /\ Left(c) = Left(course) \cup Left(p)
        /\ from # "completed" => c # << >> /\ c[1] = "save"
        /\ from = "completed" => c = p /\ Left(course) = {}
    <3>1. /\ Program(course \o p) /\ Left(course \o p) = Left(course) \cup Left(p)
          /\ course # << >> => course \o p # << >> /\ (course \o p)[1] = course[1]
          /\ course = << >> => course \o p = p
      BY <2>2, <2>4, Joined
    <3>2. course = << >> => Left(course) = {}
      BY NoSteps
    <3> HIDE DEF c
    <3> QED
      BY <2>2, <2>5, <3>1, <3>2
  <2> HIDE DEF c
  <2>7. /\ Left(c) \cap ForBook = {} /\ "initial" \notin Left(c)
        /\ c # << >> /\ c[1] \notin PushSteps /\ c[1] = IF from = "completed" THEN "push" ELSE "save"
        /\ "dates" \in Left(c) => from # "completed"
    BY <2>2, <2>4, <2>6 DEF CourseSteps, ForBook, PushSteps
  <2>8. Begins(c, r, r.b.status, earned)
    <3>1. r.pct > 99 /\ r.b.status = from /\ (from = "completed" => earned)
      BY <1>3, <1>5, <2>1
    <3> QED
      BY <1>4, <1>5, <2>6, <2>7, <3>1 DEF Begins
  <2>9. op' = Go(o, r, c)
    BY <1>5, <1>7
  <2> QED
    BY <1>2, <1>3, <1>5, <2>8, <2>9, TurnsFit
<1> QED
  BY <1>1, <1>6, <1>7

-----------------------------------------------------------------------------
(***************************************************************************)
(* The steps of a link, of the dates and of the list.                      *)
(***************************************************************************)
LEMMA LinkStepFits ==
  ASSUME Inv, NEW o \in Ops, SaveLink(o)
  PROVE  Inv'
<1>1. /\ UNCHANGED <<book, journal, progress, completions, earned, tbr, remote, sent, grimmory, recovered, apart, requests, faults>>
      /\ At(o, "link") /\ Reads(o, op[o]) /\ details' = SavedDetails(details, op[o].d)
  BY DEF SaveLink, local
<1>2. Grows
  BY <1>1, StillGrows
<1>3. PICK d \in Details : d = op[o].d /\ (recovered' \/ WholeLink(d))
  <2>1. op[o] \in Operation /\ (recovered \/ WholeLink(op[o].d))
    BY <1>1, AtStep
  <2> QED
    BY <1>1, <2>1 DEF Operation
<1>4. LinkFits'
  BY <1>1, <1>3, SavedFits
<1>5. OpsFit'
  BY <1>1, <1>2, Passes
<1>6. OtherFits'
  BY <1>1 DEF Inv, TypeOK, OtherFits
<1> QED
  BY <1>1, <1>2, <1>4, <1>5, <1>6, Kept, Together

LEMMA WithUser ==
  ASSUME NEW d \in Details, NEW h \in HcBooks
  PROVE  LET e == [d EXCEPT !.user = h] IN
         e \in Details /\ e.hc = d.hc /\ e.user = h /\ e.edition = d.edition /\ e.read = d.read
  BY DEF Details

\* The user's entry is the linked book's, whether found or made.
LEMMA OwnedFits ==
  ASSUME TypeOK, NEW d \in Details, d.hc \in HcBooks, NEW status \in HcStatuses, NEW lookup, NEW create
  PROVE  LET e == Owned(d, remote, status, lookup, create) IN
         e \in Details /\ e.hc = d.hc /\ (WholeLink(d) => WholeLink(e))
<1> DEFINE found == Adopted(d, remote)
           one == [d EXCEPT !.user = d.hc]
           made == [one EXCEPT !.status = status]
           e == Owned(d, remote, status, lookup, create)
<1>1. e = d \/ e = found \/ e = made
  <2>1. [d EXCEPT !.user = d.hc, !.status = status] = made
    OBVIOUS
  <2> HIDE DEF made, found
  <2> QED
    BY <2>1 DEF Owned, found
<1>2. found \in Details /\ found.hc = d.hc /\ (WholeLink(d) => WholeLink(found))
  BY AdoptedFits
<1>3. one \in Details /\ one.hc = d.hc /\ one.user = d.hc /\ one.edition = d.edition /\ one.read = d.read
  BY DEF Details
<1> HIDE DEF found, e, one
<1>4. made \in Details /\ made.hc = d.hc /\ made.user = d.hc /\ made.edition = d.edition /\ made.read = d.read
  BY <1>3, WithStatus
<1> HIDE DEF made
<1>5. WholeLink(d) => WholeLink(made)
  BY <1>4, HardcoverAssumption DEF WholeLink
<1> QED
  BY <1>1, <1>2, <1>4, <1>5 DEF e

LEMMA OwnFits ==
  ASSUME Inv, NEW o \in Ops, Own(o)
  PROVE  Inv'
<1>1. /\ UNCHANGED <<book, journal, progress, completions, earned, tbr, sent, grimmory, recovered, apart, requests>>
      /\ At(o, "own")
  BY DEF Own, local
<1>2. Grows
  BY <1>1, StillGrows
<1> DEFINE r == op[o]
<1>3. /\ r \in Operation /\ r.d \in Details /\ r.d.hc \in HcBooks /\ (recovered' \/ WholeLink(r.d))
      /\ r.b.status \in Statuses /\ (r.b.status = "completed" => earned)
  <2>1. /\ r \in Operation /\ r.d.hc \in HcBooks /\ (recovered \/ WholeLink(r.d)) /\ Fits(r)
    BY <1>1, AtStep DEF ForBook
  <2> HIDE DEF r
  <2> QED
    BY <1>1, <2>1 DEF Operation, Book, Fits, EarnedBy
<1>4. PICK status \in HcStatuses : status = LocalToHc[r.b.status] /\ (status = Read => earned')
  BY <1>1, <1>3, HcStatusOf
<1>5. PICK d \in Details : d = r.d
  BY <1>3
<1>6. PICK lookup \in {"done", "refused"}, create \in Answers :
        /\ Call(IF lookup = "done" THEN create ELSE lookup)
        /\ details' = IF Owned(d, remote, status, lookup, create) = d THEN details
                      ELSE SavedDetails(details, Owned(d, remote, status, lookup, create))
        /\ remote' = OwnedRemote(d, remote, status, lookup, create)
        /\ Reads(o, [r EXCEPT !.d = Owned(d, remote, status, lookup, create)])
  BY <1>4, <1>5 DEF Own
<1> DEFINE e == Owned(d, remote, status, lookup, create)
<1>7. e \in Details /\ e.hc = d.hc /\ (recovered' \/ WholeLink(e))
  BY <1>1, <1>3, <1>5, OwnedFits DEF Inv
<1> HIDE DEF e
<1>8. LinkFits'
  <2>1. CASE details' = SavedDetails(details, e)
    BY <1>7, <2>1, SavedFits
  <2>2. CASE UNCHANGED details
    BY <1>2, <2>2, Kept
  <2> QED
    BY <1>6, <2>1, <2>2 DEF e
<1>9. MirrorFits'
  <2>1. CASE remote' = Told(remote, d.hc, status, create)
    <3>1. d.hc \in HcBooks /\ (earned => earned')
      BY <1>1, <1>3, <1>5
    <3> QED
      BY <1>4, <2>1, <3>1, ToldFits
  <2>2. CASE UNCHANGED remote
    BY <1>2, <2>2, Kept
  <2> QED
    BY <1>6, <2>1, <2>2 DEF OwnedRemote
<1>10. OpsFit'
  <2> DEFINE q == [r EXCEPT !.d = e]
  <2>1. q \in Operation /\ q.d = e /\ q.b = op[o].b /\ q.to = op[o].to /\ q.pct = op[o].pct /\ Reads(o, q)
    BY <1>3, <1>6, <1>7, WithDetails DEF e
  <2> HIDE DEF q
  <2>2. e.hc \in HcBooks /\ "own" \notin {"save", "check"} /\ "own" \notin Pushes
    BY <1>3, <1>5, <1>7 DEF Pushes
  <2> HIDE DEF r
  <2> QED
    BY <1>1, <1>2, <1>7, <2>1, <2>2, ReadsOn
<1>11. OtherFits'
  <2>1. PICK a \in Answers : a = (IF lookup = "done" THEN create ELSE lookup) /\ Call(a)
    BY <1>6 DEF Answers
  <2> QED
    BY <1>1, <2>1, CallFits DEF Inv, TypeOK, OtherFits
<1> QED
  BY <1>1, <1>2, <1>8, <1>9, <1>10, <1>11, Kept, Together

\* A step that writes dates of the book.
LEMMA DatesStepFits ==
  ASSUME Inv, NEW o \in Ops, NEW step, At(o, step), step \notin {"save", "check", "push", "adopt"}, Reads(o, op[o]),
         book' \in Book, book'.status = book.status, book'.count = book.count,
         UNCHANGED <<journal, tbr, progress, completions, earned, details, remote, sent, grimmory,
                     recovered, apart, requests>>,
         faults' \in 0 .. MaxFaults
  PROVE  Inv'
<1>1. Grows
  BY DEF Grows, Inv, TypeOK
<1>2. BookFits'
  BY DEF BookFits, Inv, Stored
<1>3. OpsFit'
  BY <1>1, Passes
<1>4. OtherFits'
  BY DEF Inv, TypeOK, OtherFits
<1> QED
  BY <1>1, <1>2, <1>3, <1>4, Kept, Together

LEMMA OrFits ==
  ASSUME NEW x \in Dates, NEW y \in Dates
  PROVE  Or(x, y) \in Dates
  BY DEF Or

LEMMA FillFits ==
  ASSUME Inv, NEW o \in Ops, Fill(o) \/ TakeDates(o)
  PROVE  Inv'
<1>1. PICK step \in {"fill", "take_dates"} : At(o, step)
  BY DEF Fill, TakeDates
<1>2. /\ UNCHANGED <<journal, tbr, progress, completions, earned, details, remote, sent, grimmory,
                     recovered, apart, requests>>
      /\ Reads(o, op[o])
  BY DEF Fill, TakeDates, history, mirror
<1>3. PICK read \in ReadRow, answer \in Answers, takeStarted \in BOOLEAN, takeFinished \in BOOLEAN :
        /\ Call(answer)
        /\ book' = [book EXCEPT !.started = IF takeStarted THEN Or(read.started, @) ELSE @,
                                !.finished = IF takeFinished THEN Or(read.finished, @) ELSE @]
  <2> DEFINE b == op[o].b
  <2>1. Nothing \in ReadRow
    BY DEF Nothing, ReadRow, Dates
  <2>2. \A h \in HcBooks : LastRead(remote, h) \in ReadRow
    BY LastRow DEF Inv
  <2>3. CASE Fill(o)
    <3>1. PICK answer \in Answers :
            LET read == IF answer = "done" /\ details.hc # None THEN LastRead(remote, details.hc) ELSE Nothing
            IN  /\ Call(answer)
                /\ book' = [book EXCEPT !.started = IF b.started = None THEN Or(read.started, @) ELSE @,
                                        !.finished = IF b.finished = None THEN Or(read.finished, @) ELSE @]
      BY <2>3 DEF Fill, Answers
    <3>2. details.hc # None => details.hc \in HcBooks
      BY DEF Inv, TypeOK, Details
    <3>3. PICK read \in ReadRow :
            read = IF answer = "done" /\ details.hc # None THEN LastRead(remote, details.hc) ELSE Nothing
      BY <2>1, <2>2, <3>2
    <3>4. PICK x \in BOOLEAN, y \in BOOLEAN : (x <=> b.started = None) /\ (y <=> b.finished = None)
      OBVIOUS
    <3> QED
      BY <3>1, <3>3, <3>4
  <2>4. CASE TakeDates(o)
    <3>1. PICK answer \in Answers :
            LET read == IF answer = "done" THEN LastRead(remote, op[o].d.hc) ELSE Nothing
            IN  /\ Call(answer)
                /\ book' = [book EXCEPT !.started = IF read.started # b.started THEN Or(read.started, @) ELSE @,
                                        !.finished = IF read.finished # b.finished THEN Or(read.finished, @) ELSE @]
      BY <2>4 DEF TakeDates, Answers
    <3>2. op[o].d.hc \in HcBooks
      BY <2>4, AtStep DEF TakeDates, ForBook
    <3>3. PICK read \in ReadRow : read = IF answer = "done" THEN LastRead(remote, op[o].d.hc) ELSE Nothing
      BY <2>1, <2>2, <3>2
    <3>4. PICK x \in BOOLEAN, y \in BOOLEAN : (x <=> read.started # b.started) /\ (y <=> read.finished # b.finished)
      OBVIOUS
    <3> QED
      BY <3>1, <3>3, <3>4
  <2> QED
    BY <2>3, <2>4
<1>4. PICK row \in Book : row = book
  BY DEF Inv, TypeOK
<1> DEFINE x == IF takeStarted THEN Or(read.started, row.started) ELSE row.started
           y == IF takeFinished THEN Or(read.finished, row.finished) ELSE row.finished
<1>5. x \in Dates /\ y \in Dates
  <2>1. read.started \in Dates /\ read.finished \in Dates /\ row.started \in Dates /\ row.finished \in Dates
    BY DEF ReadRow, Book
  <2> QED
    BY <2>1, OrFits
<1>6. book' = [row EXCEPT !.started = x, !.finished = y]
  BY <1>3, <1>4
<1> HIDE DEF x, y
<1>7. book' \in Book /\ book'.status = book.status /\ book'.count = book.count
  <2>1. PICK s \in Dates, f \in Dates : s = x /\ f = y
    BY <1>5
  <2> DEFINE new == [row EXCEPT !.started = s, !.finished = f]
  <2>2. new \in Book /\ new.status = row.status /\ new.count = row.count
    BY WithBoth
  <2>3. book' = new
    BY <1>6, <2>1
  <2> HIDE DEF new
  <2> QED
    BY <1>4, <2>2, <2>3
<1>8. faults' \in 0 .. MaxFaults
  BY <1>3, CallFits
<1> QED
  BY <1>1, <1>2, <1>7, <1>8, DatesStepFits

LEMMA StartDateFits ==
  ASSUME Inv, NEW o \in Ops, StartDate(o)
  PROVE  Inv'
<1>1. /\ UNCHANGED <<journal, tbr, progress, completions, earned, details, remote, sent, grimmory,
                     recovered, apart, requests, faults>>
      /\ At(o, "tbr_dates") /\ Reads(o, op[o])
  BY DEF StartDate, history, mirror
<1>2. PICK day \in Dates : book' = book \/ book' = [book EXCEPT !.started = day]
  BY DEF StartDate
<1>3. PICK row \in Book : row = book
  BY DEF Inv, TypeOK
<1>4. book' \in Book /\ book'.status = book.status /\ book'.count = book.count
  BY <1>2, <1>3, WithStarted
<1>5. faults' \in 0 .. MaxFaults
  BY <1>1 DEF Inv, TypeOK
<1> QED
  BY <1>1, <1>4, <1>5, DatesStepFits

LEMMA SendDatesFits ==
  ASSUME Inv, NEW o \in Ops, SendDates(o)
  PROVE  Inv'
<1>1. /\ UNCHANGED <<book, journal, progress, completions, earned, tbr, details, grimmory, recovered, apart, requests>>
      /\ At(o, "send_dates") /\ Reads(o, op[o])
  BY DEF SendDates, local
<1>2. Grows
  BY <1>1, StillGrows
<1>3. op[o].d.hc \in HcBooks /\ op[o].b \in Book
  <2>1. op[o] \in Operation /\ op[o].d.hc \in HcBooks
    BY <1>1, AtStep DEF ForBook
  <2> QED
    BY <2>1 DEF Operation
<1>4. PICK h \in HcBooks, b \in Book : h = op[o].d.hc /\ b = op[o].b
  BY <1>3
<1> DEFINE old == LastRead(remote, h)
           new == PushedDates(old, b, TRUE)
           n == IF remote[h].reads = << >> THEN 1 ELSE Len(remote[h].reads)
<1>5. PICK answer \in Answers :
        /\ Call(answer)
        /\ \/ remote' = WithRead(remote, h, n, new) /\ sent' = new
           \/ UNCHANGED <<remote, sent>>
  BY <1>4 DEF SendDates
<1>6. /\ remote[h].reads \in Seq(ReadRow) /\ Len(remote[h].reads) \in Nat
      /\ remote[h].reads # << >> => Len(remote[h].reads) # 0
      /\ old \in ReadRow
  BY LastRow DEF Inv
<1>7. n \in Nat /\ n \in 1 .. Len(remote[h].reads) + 1
  BY <1>6
<1>8. new \in ReadRow
  <2> HIDE DEF old
  <2>1. old.started \in Dates /\ old.finished \in Dates /\ b.started \in Dates /\ b.finished \in Dates
    BY <1>6 DEF ReadRow, Book
  <2> QED
    BY <2>1 DEF PushedDates, ReadRow
<1> HIDE DEF old, new, n
<1>9. MirrorFits' /\ SentFits'
  <2>1. CASE remote' = WithRead(remote, h, n, new) /\ sent' = new
    <3>1. MirrorFits'
      BY <1>1, <1>7, <1>8, <2>1, WithReadFits
    <3>2. SentFits'
      BY <1>8, <2>1 DEF SentFits, ReadRow
    <3> QED
      BY <3>1, <3>2
  <2>2. CASE UNCHANGED <<remote, sent>>
    BY <1>2, <2>2, Kept
  <2> QED
    BY <1>5, <2>1, <2>2
<1>10. OpsFit'
  BY <1>1, <1>2, Passes
<1>11. OtherFits'
  BY <1>1, <1>5, CallFits DEF Inv, TypeOK, OtherFits
<1> QED
  BY <1>1, <1>2, <1>9, <1>10, <1>11, Kept, Together

LEMMA WantFits ==
  ASSUME Inv, NEW o \in Ops, Want(o)
  PROVE  Inv'
<1>1. /\ UNCHANGED <<book, journal, progress, completions, earned, tbr, details, sent, grimmory, recovered, apart, requests>>
      /\ At(o, "want") /\ Reads(o, op[o])
  BY DEF Want, local
<1>2. Grows
  BY <1>1, StillGrows
<1>3. PICK answer \in Answers : Call(answer) /\ remote' = Told(remote, op[o].d.hc, WantToRead, answer)
  BY DEF Want
<1>4. op[o].d.hc \in HcBooks /\ WantToRead \in HcStatuses /\ WantToRead # Read
  BY <1>1, AtStep DEF ForBook, HcStatuses, WantToRead, Read, NoBook, Ignored
<1>5. PICK status \in HcStatuses : status = WantToRead /\ status # Read
  BY <1>4
<1>6. MirrorFits'
  BY <1>1, <1>3, <1>4, <1>5, ToldFits
<1>7. OpsFit'
  BY <1>1, <1>2, Passes
<1>8. OtherFits'
  BY <1>1, <1>3, CallFits DEF Inv, TypeOK, OtherFits
<1> QED
  BY <1>1, <1>2, <1>6, <1>7, <1>8, Kept, Together

LEMMA ImportFits ==
  ASSUME Inv, NEW o \in Ops, ImportItem(o)
  PROVE  Inv'
<1>1. /\ UNCHANGED <<book, journal, progress, completions, earned, details, remote, sent, grimmory,
                     recovered, apart, requests, faults>>
      /\ At(o, "import")
  BY DEF ImportItem, local, mirror
<1>2. Grows
  BY <1>1, StillGrows
<1>3. op[o] \in Operation /\ Fits(op[o]) /\ ListFits /\ completions \in Nat
  BY Parts DEF Inv, TypeOK
<1>4. OpsFit' /\ ListFits'
  <2>1. CASE op[o].list = {} \/ ~Room
    <3>1. Reads(o, op[o]) /\ UNCHANGED tbr
      BY <2>1 DEF ImportItem
    <3> QED
      BY <1>1, <1>2, <3>1, Passes, Kept
  <2>2. CASE ~(op[o].list = {} \/ ~Room)
    <3>1. PICK r \in Operation : r = op[o] /\ Fits(r) /\ r.list # {}
      BY <1>3, <2>2
    <3>2. PICK h \in HcBooks : h = CHOOSE g \in r.list : TRUE
      BY <3>1 DEF Operation
    <3>3. PICK list \in SUBSET HcBooks : list = r.list \ {h}
      BY DEF Operation
    <3> DEFINE q == [r EXCEPT !.list = list]
    <3>4. op' = [op EXCEPT ![o] = q]
      BY <2>2, <3>1, <3>2, <3>3 DEF ImportItem
    <3>5. tbr' = tbr \/ tbr' = [tbr EXCEPT ![NewItem] = NewRow(h)]
      BY <2>2, <3>1, <3>2 DEF ImportItem
    <3>6. q \in Operation /\ q.todo = r.todo /\ Same(q, r)
      BY WithList
    <3> HIDE DEF q
    <3>7. Fits(q)
      BY <3>1, <3>6, SameFits
    <3>8. Fits(q)'
      BY <1>2, <1>3, <3>6, <3>7, StaysFit
    <3>9. OpsFit'
      BY <1>2, <3>4, <3>6, <3>8, OpGoes
    <3>10. ListFits'
      BY <1>3, <2>2, <3>5, RowFits DEF ListFits
    <3> QED
      BY <3>9, <3>10
  <2> QED
    BY <2>1, <2>2
<1>5. OtherFits'
  BY <1>1 DEF Inv, TypeOK, OtherFits
<1> QED
  BY <1>1, <1>2, <1>4, <1>5, Kept, Together

LEMMA DropFits ==
  ASSUME Inv, NEW o \in Ops, DropItem(o)
  PROVE  Inv'
<1>1. /\ UNCHANGED <<book, journal, progress, completions, earned, details, remote, sent, grimmory,
                     recovered, apart, requests, faults>>
      /\ At(o, "tbr_done") /\ Reads(o, op[o]) /\ tbr' = [tbr EXCEPT ![op[o].item] = None]
  BY DEF DropItem, local, mirror
<1>2. Grows
  BY <1>1, StillGrows
<1>3. ListFits'
  BY <1>1, Parts DEF ListFits
<1>4. OpsFit'
  BY <1>1, <1>2, Passes
<1>5. OtherFits'
  BY <1>1 DEF Inv, TypeOK, OtherFits
<1> QED
  BY <1>1, <1>2, <1>3, <1>4, <1>5, Kept, Together

-----------------------------------------------------------------------------
(***************************************************************************)
(* What is done in one go.                                                 *)
(***************************************************************************)
LEMMA EditFits ==
  ASSUME Inv, NEW kind, Edit(kind), UNCHANGED earned, recovered => recovered', recovered' \in BOOLEAN,
         UNCHANGED <<grimmory, sent, progress, remote>>, BookFits', LinkFits', ListFits', JournalFits',
         book'.status = book.status
  PROVE  Inv'
<1>1. op' = Touched(op) /\ UNCHANGED <<completions, faults>> /\ requests' = requests + 1 /\ requests < MaxRequests /\ apart' \in BOOLEAN
  BY DEF Edit, Request, Asked
<1>2. Grows
  BY <1>1 DEF Grows, Inv, TypeOK
<1>3. OpsFit'
  BY <1>1, <1>2, TouchedFits
<1>4. OtherFits'
  BY <1>1, TrackerAssumption DEF Inv, TypeOK, OtherFits
<1> QED
  BY <1>2, <1>3, <1>4, Kept, Together

LEMMA CoverFits ==
  ASSUME Inv, NEW h \in HcBooks, PickCover(h)
  PROVE  Inv'
<1>1. /\ Edit("cover") /\ details' = SavedDetails(details, [details EXCEPT !.hc = h])
      /\ recovered' = (recovered \/ details.hc \notin {None, h})
      /\ UNCHANGED <<book, journal, tbr, progress, remote, grimmory, sent, earned, completions>>
  BY DEF PickCover, Edit
<1>2. Grows
  BY <1>1 DEF Grows, Inv, TypeOK
<1>3. PICK d \in Details : d = details /\ (recovered \/ WholeLink(d))
  BY DEF Inv, TypeOK, Stored
<1> DEFINE e == [d EXCEPT !.hc = h]
<1>4. e \in Details /\ e.hc = h /\ e.user = d.user /\ e.edition = d.edition /\ e.read = d.read
  BY DEF Details
<1>5. details' = SavedDetails(details, e)
  BY <1>1, <1>3
<1> HIDE DEF e
<1>6. recovered' \/ WholeLink(e)
  BY <1>1, <1>3, <1>4 DEF WholeLink
<1>7. LinkFits'
  BY <1>4, <1>5, <1>6, SavedFits
<1>8. recovered' \in BOOLEAN
  BY <1>1 DEF Inv, TypeOK
<1> QED
  BY <1>1, <1>2, <1>7, <1>8, Kept, EditFits

\* The user's edits of dates and journal.
LEMMA DatesEditFits ==
  ASSUME Inv, NEW kind, Edit(kind), book' \in Book, book'.status = book.status, book'.count = book.count,
         JournalFits', UNCHANGED <<tbr, progress, details, remote, sent, grimmory, earned, recovered>>
  PROVE  Inv'
<1>1. UNCHANGED completions
  BY DEF Edit
<1>2. Grows
  BY <1>1 DEF Grows, Inv, TypeOK
<1>3. BookFits'
  BY <1>1 DEF BookFits, Inv, Stored
<1>4. recovered' \in BOOLEAN
  BY DEF Inv, TypeOK
<1> QED
  BY <1>1, <1>2, <1>3, <1>4, Kept, EditFits

LEMMA EditDatesFits ==
  ASSUME Inv, NEW started \in Dates, NEW finished \in Dates, EditDates(started, finished)
  PROVE  Inv'
<1>1. /\ Edit("dates") /\ book' = [book EXCEPT !.started = started, !.finished = finished]
      /\ UNCHANGED <<journal, tbr, progress, details, remote, sent, grimmory, earned, recovered>>
  BY DEF EditDates, mirror
<1>2. PICK row \in Book : row = book
  BY DEF Inv, TypeOK
<1> DEFINE new == [row EXCEPT !.started = started, !.finished = finished]
<1>3. new \in Book /\ new.status = row.status /\ new.count = row.count
  BY WithBoth
<1>4. book' = new
  BY <1>1, <1>2
<1> HIDE DEF new
<1>5. JournalFits'
  BY <1>1 DEF JournalFits, Inv, TypeOK
<1> QED
  BY <1>1, <1>2, <1>3, <1>4, <1>5, DatesEditFits

LEMMA EntryFits ==
  ASSUME Inv, NEW e \in DOMAIN journal, DeleteEntry(e) \/ EditEntry(e)
  PROVE  Inv'
<1>1. /\ Edit("journal") /\ UNCHANGED <<tbr, progress, details, remote, sent, grimmory, earned, recovered>>
      /\ journal[e] > 0
      /\ journal' = journal \/ journal' = [journal EXCEPT ![e] = @ - 1]
  BY DEF DeleteEntry, EditEntry, mirror
<1>2. e \in {"started", "finished"} /\ journal \in [{"started", "finished"} -> Nat]
  BY DEF Inv, TypeOK
<1>3. JournalFits'
  <2>1. journal[e] - 1 \in Nat
    BY <1>1, <1>2
  <2> QED
    BY <1>1, <1>2, <2>1 DEF JournalFits
<1>4. PICK row \in Book : row = book
  BY DEF Inv, TypeOK
<1>5. PICK day \in Dates : book' = row \/ book' = [row EXCEPT ![e] = day]
  BY <1>4 DEF DeleteEntry, EditEntry, Dates
<1>6. CASE e = "started"
  <2>1. book' = row \/ book' = [row EXCEPT !.started = day]
    BY <1>5, <1>6
  <2>2. book' \in Book /\ book'.status = book.status /\ book'.count = book.count
    BY <1>4, <2>1, WithStarted
  <2> QED
    BY <1>1, <1>3, <2>2, DatesEditFits
<1>7. CASE e = "finished"
  <2>1. book' = row \/ book' = [row EXCEPT !.finished = day]
    BY <1>5, <1>7
  <2>2. book' \in Book /\ book'.status = book.status /\ book'.count = book.count
    BY <1>4, <2>1, WithFinished
  <2> QED
    BY <1>1, <1>3, <2>2, DatesEditFits
<1> QED
  BY <1>2, <1>6, <1>7

\* The user's edits of the list.
LEMMA ListEditFits ==
  ASSUME Inv, NEW kind, Edit(kind), tbr' \in [ItemIds -> Item \cup {None}],
         UNCHANGED <<book, journal, progress, details, remote, sent, grimmory, earned, recovered>>
  PROVE  Inv'
<1>1. UNCHANGED completions
  BY DEF Edit
<1>2. Grows
  BY <1>1, StillGrows
<1>3. ListFits' /\ recovered' \in BOOLEAN
  BY DEF ListFits, Inv, TypeOK
<1> QED
  BY <1>1, <1>2, <1>3, Kept, EditFits

LEMMA ListEditsFit ==
  ASSUME Inv, \/ AddFromLibrary
              \/ \E i \in ItemIds, yes \in BOOLEAN : LinkItem(i, yes)
              \/ \E i \in ItemIds, h \in HcBooks : PatchItem(i, h)
  PROVE  Inv'
<1>1. tbr \in [ItemIds -> Item \cup {None}]
  BY DEF Inv, TypeOK
<1>2. CASE AddFromLibrary
  <2>1. [linked |-> TRUE, named |-> TRUE, hc |-> None] \in Item
    BY DEF Item
  <2>2. tbr' \in [ItemIds -> Item \cup {None}]
    BY <1>1, <1>2, <2>1 DEF AddFromLibrary
  <2> QED
    BY <1>2, <2>2, ListEditFits DEF AddFromLibrary, mirror
<1>3. ASSUME NEW i \in ItemIds, NEW yes \in BOOLEAN, LinkItem(i, yes)
      PROVE  Inv'
  <2>1. PICK item \in Item : item = tbr[i]
    BY <1>1, <1>3 DEF LinkItem
  <2>2. [item EXCEPT !.linked = yes] \in Item
    BY DEF Item
  <2>3. tbr' = [tbr EXCEPT ![i] = [item EXCEPT !.linked = yes]]
    BY <1>3, <2>1 DEF LinkItem
  <2>4. tbr' \in [ItemIds -> Item \cup {None}]
    BY <1>1, <2>2, <2>3
  <2> QED
    BY <1>3, <2>4, ListEditFits DEF LinkItem, mirror
<1>4. ASSUME NEW i \in ItemIds, NEW h \in HcBooks, PatchItem(i, h)
      PROVE  Inv'
  <2>1. PICK item \in Item : item = tbr[i]
    BY <1>1, <1>4 DEF PatchItem
  <2>2. [item EXCEPT !.hc = h] \in Item
    BY DEF Item
  <2>3. tbr' = [tbr EXCEPT ![i] = [item EXCEPT !.hc = h]]
    BY <1>4, <2>1 DEF PatchItem
  <2>4. tbr' \in [ItemIds -> Item \cup {None}]
    BY <1>1, <2>2, <2>3
  <2> QED
    BY <1>4, <2>4, ListEditFits DEF PatchItem, mirror
<1> QED
  BY <1>2, <1>3, <1>4

LEMMA DeleteItemFits ==
  ASSUME Inv, NEW i \in ItemIds, NEW everywhere \in BOOLEAN, DeleteItem(i, everywhere)
  PROVE  Inv'
<1>1. /\ UNCHANGED <<book, journal, progress, completions, earned, details, sent, grimmory, recovered>>
      /\ requests' = requests + 1 /\ requests < MaxRequests /\ apart' \in BOOLEAN /\ op' = Touched(op)
      /\ tbr[i] # None /\ tbr' = [tbr EXCEPT ![i] = None]
  BY DEF DeleteItem, local, Request, Asked
<1>2. Grows
  BY <1>1, StillGrows
<1>3. PICK answer \in Answers :
        /\ Call(answer)
        /\ remote' = IF everywhere /\ tbr[i].hc # None THEN Told(remote, tbr[i].hc, Ignored, answer) ELSE remote
  BY DEF DeleteItem
<1>4. tbr[i].hc # None => tbr[i].hc \in HcBooks
  BY <1>1 DEF Inv, TypeOK, Item
<1>5. PICK status \in HcStatuses : status = Ignored /\ status # Read
  BY DEF HcStatuses, NoBook, Ignored, Read
<1>6. MirrorFits'
  <2>1. CASE UNCHANGED remote
    BY <1>2, <2>1, Kept
  <2>2. CASE tbr[i].hc # None /\ remote' = Told(remote, tbr[i].hc, status, answer)
    BY <1>1, <1>4, <1>5, <2>2, ToldFits
  <2> QED
    BY <1>3, <1>5, <2>1, <2>2
<1>7. ListFits'
  BY <1>1, Parts DEF ListFits
<1>8. OpsFit'
  BY <1>1, <1>2, TouchedFits
<1>9. OtherFits'
  BY <1>1, <1>3, CallFits, TrackerAssumption DEF Inv, TypeOK, OtherFits
<1> QED
  BY <1>1, <1>2, <1>6, <1>7, <1>8, <1>9, Kept, Together

\* A report beside the operations leaves them as they are.
LEMMA OpsStay ==
  ASSUME Inv, Grows, UNCHANGED op
  PROVE  OpsFit'
<1>1. completions \in Nat
  BY DEF Inv, TypeOK
<1>2. ASSUME NEW p \in Ops
      PROVE  Fits(op[p])'
  <2>1. PICK c \in Operation : c = op[p] /\ Fits(c)
    BY DEF Inv, TypeOK
  <2>2. Fits(c)'
    BY <1>1, <2>1, StaysFit
  <2> QED
    BY <2>1, <2>2 DEF Fits, Loaded, Counted, EarnedBy, First
<1> QED
  BY <1>2 DEF OpsFit, Inv, TypeOK

LEMMA ReportFits ==
  ASSUME Inv, NEW p \in Percents, Report(p)
  PROVE  Inv'
<1>1. /\ UNCHANGED <<book, journal, tbr, details, remote, sent, grimmory, op, completions, recovered, apart, faults>>
      /\ requests' = requests + 1 /\ requests < MaxRequests
      /\ progress' = p /\ earned' = (earned \/ p > 99)
  BY DEF Report, Asked, mirror
<1>2. earned \in BOOLEAN /\ earned' \in BOOLEAN /\ (earned => earned') /\ p \in 0 .. 100
  BY <1>1, TrackerAssumption DEF Inv, TypeOK
<1>3. Grows
  BY <1>1, <1>2, StillGrows
<1>4. PlaceFits'
  BY <1>1, <1>2 DEF PlaceFits
<1>5. OtherFits'
  BY <1>1, <1>2, TrackerAssumption DEF Inv, TypeOK, OtherFits
<1> QED
  BY <1>1, <1>3, <1>4, <1>5, Kept, OpsStay, Together

LEMMA CrashFits ==
  ASSUME Inv, Crash
  PROVE  Inv'
<1>1. /\ UNCHANGED <<book, journal, tbr, progress, completions, earned, details, remote, sent, grimmory,
                     recovered, apart, requests>>
      /\ faults < MaxFaults /\ faults' = faults + 1 /\ op' = [o \in Ops |-> Idle]
  BY DEF Crash, local, mirror
<1>2. Grows
  BY <1>1, StillGrows
<1>3. OpsFit'
  <2>1. completions \in Nat
    BY DEF Inv, TypeOK
  <2>2. PICK q \in Operation : q = Idle /\ Fits(q)
    BY <2>1, IdleFits
  <2>3. Fits(q)'
    BY <1>2, <2>1, <2>2, StaysFit
  <2>4. \A o \in Ops : op'[o] = q
    BY <1>1, <2>2
  <2> QED
    BY <1>1, <2>2, <2>3, <2>4 DEF OpsFit, Fits, Loaded, Counted, EarnedBy, First
<1>4. OtherFits'
  BY <1>1, TrackerAssumption DEF Inv, TypeOK, OtherFits
<1> QED
  BY <1>1, <1>2, <1>3, <1>4, Kept, Together

-----------------------------------------------------------------------------
(***************************************************************************)
(* The invariant and the theorems.                                         *)
(***************************************************************************)
LEMMA InitInv ==
  Init => Inv
<1> SUFFICES ASSUME Init
             PROVE  Inv
  OBVIOUS
<1>1. /\ book.status \in Statuses /\ book.started \in Dates /\ book.finished \in Dates /\ book.count = 1
      /\ book = [status |-> book.status, started |-> book.started, finished |-> book.finished, count |-> 1]
      /\ book.status = "completed" => book.finished = Day
  BY DEF Init, Statuses, Dates
<1>2. /\ completions = 0 /\ recovered = FALSE /\ apart = TRUE /\ requests = 0 /\ faults = 0 /\ earned = (book.finished # None)
      /\ op = [o \in Ops |-> Idle] /\ grimmory = "unset" /\ sent = Nothing
      /\ journal = [started |-> IF book.started = None THEN 0 ELSE 1,
                    finished |-> IF book.finished = None THEN 0 ELSE 1]
      /\ progress = CASE book.status = "completed" -> 100 [] book.status = "active" -> 99 [] OTHER -> 0
  BY DEF Init
<1>3. book.status = "completed" => earned
  BY <1>1, <1>2, TrackerAssumption
<1>4. BookFits
  BY <1>1, <1>2, <1>3 DEF BookFits, Book
<1>5. PlaceFits
  <2>1. progress \in 0 .. 100 /\ (progress > 99 => book.status = "completed")
    BY <1>2
  <2> QED
    BY <1>3, <2>1 DEF PlaceFits
<1>6. LinkFits /\ MirrorFits
  <2>1. PICK h \in HasEdition, linked \in BOOLEAN :
          /\ details = IF linked THEN [Linked(h, h) EXCEPT !.user = h, !.status = LocalToHc[book.status]]
                       ELSE NotLinked
          /\ remote = [g \in HcBooks |-> [status |-> IF linked /\ g = h THEN LocalToHc[book.status] ELSE NoBook,
                                          reads |-> << >>]]
    BY DEF Init
  <2>2. PICK status \in HcStatuses : status = LocalToHc[book.status] /\ (status = Read => earned)
    BY <1>1, <1>3, HcStatusOf
  <2>3. PICK g \in HcBooks : g = h
    BY HardcoverAssumption
  <2>4. PICK d \in Details : d = Linked(g, g) /\ d.hc = g /\ WholeLink(d)
    BY NewLink
  <2> DEFINE one == [d EXCEPT !.user = g]
             two == [one EXCEPT !.status = status]
  <2>5. one \in Details /\ one.hc = g /\ one.user = g /\ one.edition = d.edition
    BY <2>4, WithUser
  <2>6. details = two \/ details = NotLinked
    BY <2>1, <2>2, <2>3, <2>4
  <2> HIDE DEF one
  <2>7. two \in Details /\ two.hc = g /\ two.user = g /\ two.edition = d.edition
    BY <2>5, WithStatus
  <2> HIDE DEF two
  <2>8. WholeLink(two)
    BY <2>4, <2>7, HardcoverAssumption DEF WholeLink
  <2>9. NotLinked \in Details /\ WholeLink(NotLinked)
    BY Fresh DEF NotLinked, Details, HcStatuses, NoBook, Ignored
  <2>10. LinkFits
    BY <2>6, <2>7, <2>8, <2>9 DEF LinkFits
  <2>11. MirrorFits
    <3>1. NoBook \in HcStatuses /\ NoBook # Read /\ << >> \in Seq(ReadRow)
      BY DEF NoBook, HcStatuses, Read, Ignored
    <3>2. \A k \in HcBooks : /\ remote[k] = [status |-> IF linked /\ k = h THEN status ELSE NoBook, reads |-> << >>]
                             /\ remote[k].status = Read => earned
      BY <2>1, <2>2, <3>1
    <3>3. \A k \in HcBooks : remote[k] \in Remote
      <4> SUFFICES ASSUME NEW k \in HcBooks
                   PROVE  remote[k] \in Remote
        OBVIOUS
      <4>1. PICK st \in HcStatuses : st = IF linked /\ k = h THEN status ELSE NoBook
        BY <3>1
      <4>2. remote[k] = [status |-> st, reads |-> << >>]
        BY <3>2, <4>1
      <4> QED
        BY <3>1, <4>2 DEF Remote
    <3> QED
      BY <2>1, <3>2, <3>3 DEF MirrorFits
  <2> QED
    BY <2>10, <2>11
<1>7. SentFits
  BY <1>2 DEF SentFits, Nothing, Dates
<1>8. ListFits
  <2>1. PICK first : first \in {None, [linked |-> TRUE, named |-> TRUE, hc |-> None]}
                     /\ tbr = [i \in ItemIds |-> IF i = 1 THEN first ELSE None]
    BY DEF Init
  <2>2. [linked |-> TRUE, named |-> TRUE, hc |-> None] \in Item
    BY DEF Item
  <2>3. first \in Item \cup {None}
    BY <2>1, <2>2
  <2> QED
    BY <2>1, <2>3 DEF ListFits
<1>9. JournalFits
  <2>1. PICK a \in Nat, b \in Nat : journal = [started |-> a, finished |-> b]
    BY <1>2
  <2> QED
    BY <2>1 DEF JournalFits
<1>10. OtherFits
  <2>1. earned \in BOOLEAN /\ recovered \in BOOLEAN
    BY <1>2
  <2>2. 0 \in Nat /\ 0 \in 0 .. MaxRequests /\ 0 \in 0 .. MaxFaults
    BY TrackerAssumption
  <2> QED
    BY <1>2, <2>1, <2>2 DEF OtherFits
<1>11. OpsFit
  BY <1>2, IdleFits DEF OpsFit
<1> QED
  BY <1>4, <1>5, <1>6, <1>7, <1>8, <1>9, <1>10, <1>11, Parts

LEMMA NextInv ==
  Inv /\ [Next]_vars => Inv'
<1> SUFFICES ASSUME Inv, [Next]_vars
             PROVE  Inv'
  OBVIOUS
<1>1. ASSUME NEW o \in Ops, Transition(o)
      PROVE  Inv'
  BY <1>1, SaveFits, JournalStepFits, DatesFit, TellFits, CacheFits, UnlistFits, GrimmoryFits DEF Transition
<1>2. ASSUME NEW o \in Ops, Pushing(o)
      PROVE  Inv'
  BY <1>2, InitialFits, PushStepFits, AdoptFits, EditionsFit, AdvanceFits, SendFits, RecordFits DEF Pushing
<1>3. ASSUME NEW o \in Ops, Linking(o)
      PROVE  Inv'
  <2>1. ASSUME NEW h \in HcBooks, NEW e \in {None} \cup ({h} \cap HasEdition), LinkBook(o, h, e)
        PROVE  Inv'
    <3>1. /\ e \in {None, h} /\ UNCHANGED earned
          /\ Start(o, "link", [Idle EXCEPT !.d = Linked(h, e)], LinkCourse)
      BY <2>1 DEF LinkBook, LinkCourse
    <3> QED
      BY <3>1, LinkStarts
  <2>2. ASSUME NEW h \in HcBooks, Automatch(o, h)
        PROVE  Inv'
    <3>1. PICK e \in {None, h} : e = h
      OBVIOUS
    <3>2. /\ UNCHANGED earned
          /\ Start(o, "automatch", [Idle EXCEPT !.d = Linked(h, e)], LinkCourse)
      BY <2>2, <3>1 DEF Automatch, LinkCourse
    <3> QED
      BY <3>2, LinkStarts
  <2>3. CASE Rate(o) \/ PushDates(o) \/ PullDates(o)
    <3>1. PICK step \in {"own", "send_dates", "take_dates"}, kind \in {"rate", "push_dates", "pull_dates"} :
            /\ Start(o, kind, [Idle EXCEPT !.d = details], <<step>>)
            /\ UNCHANGED earned /\ details.hc # None
      BY <2>3 DEF Rate, PushDates, PullDates
    <3> QED
      BY <3>1, DetailsStart
  <2> QED
    BY <1>3, <2>1, <2>2, <2>3, LinkStepFits, OwnFits, FillFits, SendDatesFits DEF Linking
<1>4. ASSUME NEW o \in Ops, Tracking(o)
      PROVE  Inv'
  BY <1>4, StatusStarts, ProgressStarts, StoreFits, CompleteStarts, VerifyFits, AutoStarts, CheckFits,
     GrimmoryFits, PromoteStarts, SyncStarts DEF Tracking
<1>5. ASSUME NEW o \in Ops, Listing(o)
      PROVE  Inv'
  BY <1>5, ItemStarts, WantFits, ImportStarts, ImportFits, ListedStarts, StartDateFits, DropFits DEF Listing
<1>6. CASE User
  BY <1>6, CoverFits, EditDatesFits, EntryFits, ListEditsFit, DeleteItemFits, ReportFits DEF User
<1>7. CASE UNCHANGED vars
  <2>1. /\ UNCHANGED <<book, journal, tbr, progress, details, remote, grimmory, op, sent, completions,
                       earned, recovered, apart, requests, faults>>
    BY <1>7 DEF vars
  <2>2. Grows
    BY <2>1, StillGrows
  <2>3. OtherFits'
    BY <2>1 DEF Inv, TypeOK, OtherFits
  <2> QED
    BY <2>1, <2>2, <2>3, Kept, OpsStay, Together
<1> QED
  BY <1>1, <1>2, <1>3, <1>4, <1>5, <1>6, <1>7, CrashFits DEF Next

\* What the other theorems rest on: the programs of the operations are whole, what they
\* have loaded is the book's, and the count, the reports and the link cover it.
THEOREM TrackerInvariant == Spec => []Inv
<1> QED
  BY InitInv, NextInv, PTL DEF Spec

\* No reading is counted twice: whatever operations overlap, save old copies of the book
\* or crash, the read count is at most one more than the completions of the stored book.
THEOREM CountBackedCorrect == Spec => []CountBacked
<1>1. Inv => CountBacked
  BY DEF Inv, Stored, CountBacked
<1> QED
  BY <1>1, TrackerInvariant, PTL

\* Hardcover is told that a book is read only once it was completed or reported as finished.
THEOREM EarnedReadCorrect == Spec => []EarnedRead
<1>1. Inv => EarnedRead
  BY DEF Inv, Stored
<1> QED
  BY <1>1, TrackerInvariant, PTL

\* The user's entry, its read and the edition are the linked book's, until a cover of
\* another book is picked.
THEOREM LinkIsWholeCorrect == Spec => []LinkIsWhole
<1>1. Inv => LinkIsWhole
  BY DEF Inv, Stored, LinkIsWhole, WholeLink
<1> QED
  BY <1>1, TrackerInvariant, PTL
-----------------------------------------------------------------------------
(***************************************************************************)
(* Operations one at a time.  While none has overlapped another, no call   *)
(* failed and no other cover was picked, an operation that goes on with    *)
(* what it has just loaded goes on with the stored details, and a read or  *)
(* given up book at Hardcover is cached as such.                           *)
(***************************************************************************)
Sole == apart => \A p, q \in Ops : Busy(p) /\ Busy(q) => p = q
Quiet == apart /\ faults = 0 /\ ~recovered

Alike ==
    (/\ details.user # None
     /\ remote[details.hc].status \in {Read, Dnf})
    => details.status = remote[details.hc].status

\* Between a status told and its row in the details the two may differ.
Telling(r) ==
    /\ details.hc \in HcBooks
    /\ remote[details.hc].status = LocalToHc[r.to]

UpToDate(r) ==
    /\ r.todo # << >> /\ r.todo[1] \in Follows => r.d = details
    /\ r.todo # << >> /\ r.todo[1] = "link" => r.d.user = None
    /\ r.todo # << >> /\ r.todo[1] = "cache" => Telling(r)

Caching(r) == r.todo # << >> /\ r.todo[1] = "cache"

Calm ==
    Quiet => /\ \A o \in Ops : UpToDate(op[o])
             /\ Alike \/ \E o \in Ops : Caching(op[o])

\* What an operation may become.
Shaped(r) == {"todo", "b", "d", "to", "clean"} \subseteq DOMAIN r

LEMMA StepCalm ==
  ASSUME Inv, Sole, Calm, NEW o \in Ops, Busy(o), UNCHANGED apart,
         \A p \in Ops \ {o} : op'[p].todo = op[p].todo,
         Quiet' => /\ UpToDate(op[o])'
                   /\ Alike' \/ Caching(op[o])'
  PROVE  Sole' /\ Calm'
<1>1. \A p \in Ops : Busy(p)' => Busy(p)
  BY DEF Busy
<1>2. Sole'
  BY <1>1 DEF Sole
<1>3. ASSUME Quiet'
      PROVE  /\ \A p \in Ops : UpToDate(op[p])'
             /\ Alike' \/ \E p \in Ops : Caching(op[p])'
  <2>1. apart
    BY <1>3 DEF Quiet
  <2>2. \A p \in Ops \ {o} : op[p].todo = << >> /\ op'[p].todo = << >>
    BY <2>1 DEF Sole, Busy
  <2>3. \A p \in Ops \ {o} : UpToDate(op[p])'
    BY <2>2 DEF UpToDate
  <2> QED
    BY <1>3, <2>3
<1> QED
  BY <1>2, <1>3 DEF Calm

\* Where an operation goes on.
LEMMA GoCalm ==
  ASSUME Inv, Sole, Calm, NEW o \in Ops, Busy(o), UNCHANGED apart, NEW r, Shaped(r), NEW todo, op' = Go(o, r, todo),
         Quiet' => /\ todo # << >> /\ todo[1] \in Follows => r.d = details'
                   /\ todo # << >> => todo[1] # "link"
                   /\ todo # << >> /\ todo[1] = "cache"
                        => details'.hc \in HcBooks /\ remote'[details'.hc].status = LocalToHc[r.to]
                   /\ (todo # << >> /\ todo[1] = "cache") \/ Alike'
  PROVE  Sole' /\ Calm'
<1>1. \A p \in Ops \ {o} : op'[p] = op[p]
  BY DEF Go, Inv, TypeOK
<1>2. /\ todo # << >> => op'[o].todo = todo /\ op'[o].d = r.d /\ op'[o].to = r.to
      /\ todo = << >> => op'[o].todo = << >>
  <2>1. CASE todo = << >>
    <3>1. op'[o] = Idle
      BY <2>1 DEF Go, Inv, TypeOK
    <3> QED
      BY <2>1, <3>1, IdleFits
  <2>2. CASE todo # << >>
    <3>1. op'[o] = [r EXCEPT !.todo = todo]
      BY <2>2 DEF Go, Inv, TypeOK
    <3> QED
      BY <2>2, <3>1 DEF Shaped
  <2> QED
    BY <2>1, <2>2
<1>3. Quiet' => UpToDate(op[o])' /\ (Alike' \/ Caching(op[o])')
  <2> SUFFICES ASSUME Quiet'
               PROVE  UpToDate(op[o])' /\ (Alike' \/ Caching(op[o])')
    OBVIOUS
  <2>1. UpToDate(op[o])'
    BY <1>2 DEF UpToDate, Telling
  <2>2. Alike' \/ Caching(op[o])'
    BY <1>2 DEF Caching
  <2> QED
    BY <2>1, <2>2
<1> QED
  BY <1>1, <1>3, StepCalm

\* What the calm says of an operation at one of its steps.
LEMMA WasCalm ==
  ASSUME Inv, Sole, Calm, Quiet, NEW o \in Ops, NEW step, At(o, step)
  PROVE  /\ Busy(o) /\ op[o].todo[1] = step
         /\ step \in Follows => op[o].d = details
         /\ step = "link" => op[o].d.user = None
         /\ step = "cache" => Telling(op[o])
         /\ step # "cache" => Alike
         /\ WholeLink(details)
<1>1. op[o].todo # << >> /\ op[o].todo[1] = step
  BY AtStep
<1>2. UpToDate(op[o]) /\ (Alike \/ \E p \in Ops : Caching(op[p]))
  BY DEF Calm
<1>3. \A p \in Ops : Caching(op[p]) => p = o
  BY <1>1 DEF Sole, Quiet, Busy, Caching
<1>4. step # "cache" => Alike
  BY <1>1, <1>2, <1>3 DEF Caching
<1>5. WholeLink(details)
  BY DEF Inv, Stored, Quiet
<1> QED
  BY <1>1, <1>2, <1>4, <1>5 DEF UpToDate, Busy

\* A call in the calm is answered.
LEMMA CalmCall ==
  ASSUME Inv, NEW answer, Call(answer), faults' = 0
  PROVE  answer = "done" /\ faults = 0
<1>1. faults \in Nat
  BY TrackerAssumption DEF Inv, TypeOK
<1>2. CASE answer = "done"
  BY <1>1, <1>2 DEF Call
<1>3. CASE answer # "done"
  BY <1>1, <1>3 DEF Call
<1> QED
  BY <1>2, <1>3

\* An operation that goes on with its next step.
LEMMA ReadsCalm ==
  ASSUME Inv, Sole, Calm, NEW o \in Ops, NEW step, At(o, step), UNCHANGED apart, NEW r, Shaped(r), Reads(o, r),
         Quiet' => /\ step \in Leads \ {"initial"} => r.d = details'
                   /\ step = "status" => details'.hc \in HcBooks /\ remote'[details'.hc].status = LocalToHc[r.to]
                   /\ step = "status" \/ Alike'
  PROVE  Sole' /\ Calm'
<1> DEFINE s == op[o].todo
           rest == Tail(s)
<1>1. Program(s) /\ s # << >> /\ s[1] = step
  BY AtStep
<1>2. op' = Go(o, r, rest) /\ Busy(o)
  BY <1>1 DEF Reads, Rest, Busy
<1> HIDE DEF s
<1>3. /\ Left(rest) \cap Firsts = {} /\ Program(rest)
      /\ rest # << >> /\ rest[1] \in Follows => step \in Leads
      /\ step \in Leads => rest # << >> /\ rest[1] = After[step]
  BY <1>1, RestFits
<1> HIDE DEF rest
<1>4. rest # << >> => rest[1] # "link"
  <2>1. rest # << >> => rest[1] \in Left(rest)
    BY <1>3, RestFits
  <2> QED
    BY <1>3, <2>1 DEF Firsts
<1>5. rest # << >> /\ rest[1] \in Follows => step \in Leads \ {"initial"}
  BY <1>3, Known DEF After
<1>6. (rest # << >> /\ rest[1] = "cache") <=> step = "status"
  BY <1>3, <1>5 DEF After, Leads, Pushes, Follows
<1> QED
  BY <1>2, <1>4, <1>5, <1>6, GoCalm

\* A step beside the details and Hardcover.
Besides(step) == step \notin Leads \ {"initial"} /\ step # "cache"
LEMMA BesideCalm ==
  ASSUME Inv, Sole, Calm, NEW o \in Ops, NEW step, At(o, step), Besides(step), NEW r, Shaped(r), Reads(o, r),
         UNCHANGED <<details, remote, apart, recovered>>, faults' = 0 => faults = 0
  PROVE  Sole' /\ Calm'
<1>1. Quiet' => Alike'
  <2> SUFFICES ASSUME Quiet'
               PROVE  Alike'
    OBVIOUS
  <2>1. Quiet
    BY DEF Quiet
  <2>2. Alike
    BY <2>1, WasCalm DEF Besides
  <2> QED
    BY <2>2 DEF Alike
<1>2. step # "status"
  BY DEF Besides, Leads
<1> QED
  BY <1>1, <1>2, ReadsCalm DEF Besides

\* A push that is given up.
LEMMA StopsCalm ==
  ASSUME Inv, Sole, Calm, NEW o \in Ops, NEW step \in Pushes \cup {"send"}, At(o, step), UNCHANGED apart,
         GivesUp(o) \/ op' = Go(o, op[o], AfterPush(o)), Quiet' => Alike'
  PROVE  Sole' /\ Calm'
<1> DEFINE s == op[o].todo
           r == op[o]
           rest == AfterPush(o)
           next == IF rest # << >> /\ Head(rest) = "record" THEN Tail(rest) ELSE rest
<1>1. r \in Operation /\ Program(s) /\ s # << >> /\ s[1] = step
  BY AtStep
<1>2. PICK k \in 1 .. Len(s) : s[k] = "send" /\ rest = SubSeq(s, k + 1, Len(s))
  <2>1. \E k \in 1 .. Len(s) : s[k] = "send"
    BY <1>1, PushGoesOn
  <2>2. DOMAIN s = 1 .. Len(s)
    BY <1>1 DEF Program
  <2> QED
    BY <2>1, <2>2 DEF AfterPush
<1>3. op' = Go(o, r, next) \/ op' = Go(o, r, rest)
  BY DEF GivesUp
<1>4. Busy(o) /\ Shaped(r)
  BY <1>1 DEF Busy, Shaped, Operation
<1> HIDE DEF s, rest
<1>5. Program(rest) /\ Left(rest) \cap Firsts = {} /\ (rest # << >> => rest[1] \notin Follows)
  BY <1>1, <1>2, AfterSend
<1>6. Program(next) /\ Left(next) \cap Firsts = {} /\ (next # << >> => next[1] \notin Follows)
  <2>1. CASE rest # << >> /\ Head(rest) = "record"
    <3> DEFINE tail == Tail(rest)
    <3>1. next = tail
      BY <2>1
    <3>2. /\ Program(tail) /\ Left(tail) \cap Firsts = {} /\ rest[1] = "record"
          /\ tail # << >> /\ tail[1] \in Follows => rest[1] \in Leads
      BY <1>5, <2>1, RestFits
    <3>3. "record" \notin Leads
      BY DEF Leads, Pushes
    <3> HIDE DEF tail, next
    <3> QED
      BY <3>1, <3>2, <3>3
  <2>2. CASE ~(rest # << >> /\ Head(rest) = "record")
    BY <1>5, <2>2
  <2> QED
    BY <2>1, <2>2
<1>7. ASSUME NEW todo, Program(todo), Left(todo) \cap Firsts = {}, todo # << >> => todo[1] \notin Follows, op' = Go(o, r, todo)
      PROVE  Sole' /\ Calm'
  <2>1. todo # << >> => todo[1] # "link" /\ todo[1] # "cache"
    <3>1. todo # << >> => todo[1] \in Left(todo)
      BY <1>7, RestFits
    <3> QED
      BY <1>7, <3>1 DEF Firsts, Follows
  <2> HIDE DEF r
  <2> QED
    BY <1>4, <1>7, <2>1, GoCalm
<1> HIDE DEF next, r
<1> QED
  BY <1>3, <1>5, <1>6, <1>7

\* An operation that begins, alone or not.
LEMMA BegunCalm ==
  ASSUME Inv, Sole, Calm, NEW o \in Ops, NEW r, Shaped(r), NEW todo, op' = Begun(o, r, todo),
         apart' = (apart /\ \A p \in Ops : ~Busy(p)), UNCHANGED <<details, remote, recovered, faults>>,
         todo # << >> => /\ todo[1] # "cache"
                         /\ todo[1] \in Follows => r.d = details
                         /\ todo[1] = "link" => r.d.user = None
  PROVE  Sole' /\ Calm'
<1> SUFFICES ASSUME apart'
             PROVE  Sole' /\ Calm'
  BY DEF Sole, Calm, Quiet
<1>1. apart /\ \A p \in Ops : op[p].todo = << >>
  BY DEF Busy
<1>2. \A p \in Ops \ {o} : op'[p].todo = << >>
  BY <1>1 DEF Begun, Touched
<1>3. /\ todo # << >> => op'[o].todo = todo /\ op'[o].d = r.d
      /\ todo = << >> => op'[o].todo = << >>
  <2>1. CASE todo = << >>
    <3>1. op'[o] = Idle
      BY <2>1 DEF Begun, Touched
    <3> QED
      BY <2>1, <3>1, IdleFits
  <2>2. CASE todo # << >>
    <3>1. PICK c : op'[o] = [r EXCEPT !.todo = todo, !.clean = c]
      BY <2>2 DEF Begun, Touched
    <3> QED
      BY <2>2, <3>1 DEF Shaped
  <2> QED
    BY <2>1, <2>2
<1>4. Sole'
  BY <1>2 DEF Sole, Busy
<1>5. ASSUME Quiet'
      PROVE  (\A p \in Ops : UpToDate(op[p])') /\ Alike'
  <2>1. Quiet
    BY <1>1, <1>5 DEF Quiet
  <2>2. Alike
    BY <1>1, <2>1 DEF Calm, Caching
  <2>3. Alike'
    BY <2>2 DEF Alike
  <2>4. \A p \in Ops \ {o} : UpToDate(op[p])'
    BY <1>2 DEF UpToDate
  <2>5. UpToDate(op[o])'
    BY <1>3 DEF UpToDate
  <2> QED
    BY <2>3, <2>4, <2>5
<1> QED
  BY <1>4, <1>5 DEF Calm

LEMMA StartCalm ==
  ASSUME Inv, Sole, Calm, NEW o \in Ops, NEW kind, NEW r, Shaped(r), NEW todo, Start(o, kind, r, todo),
         todo # << >> => /\ todo[1] # "cache"
                         /\ todo[1] \in Follows => r.d = details
                         /\ todo[1] = "link" => r.d.user = None
  PROVE  Sole' /\ Calm'
<1> DEFINE q == [r EXCEPT !.b = book]
<1>1. /\ op' = Begun(o, q, todo) /\ apart' = (apart /\ \A p \in Ops : ~Busy(p))
      /\ UNCHANGED <<details, remote, recovered, faults>>
  BY DEF Start, Request, mirror
<1>2. Shaped(q) /\ q.d = r.d
  BY DEF Shaped
<1> HIDE DEF q
<1> QED
  BY <1>1, <1>2, BegunCalm

\* A request that is done in one go.
LEMMA EditCalm ==
  ASSUME Inv, Sole, Calm, op' = Touched(op), apart' = (apart /\ \A p \in Ops : ~Busy(p)),
         Quiet' /\ apart /\ Alike => Alike', faults' = 0 => faults = 0, recovered => recovered'
  PROVE  Sole' /\ Calm'
<1> SUFFICES ASSUME apart'
             PROVE  Sole' /\ Calm'
  BY DEF Sole, Calm, Quiet
<1>1. apart /\ \A p \in Ops : op[p].todo = << >>
  BY DEF Busy
<1>2. \A p \in Ops : op'[p].todo = << >>
  BY <1>1 DEF Touched
<1>3. ASSUME Quiet'
      PROVE  (\A p \in Ops : UpToDate(op[p])') /\ Alike'
  <2>1. Quiet
    BY <1>1, <1>3 DEF Quiet
  <2>2. Alike
    BY <1>1, <2>1 DEF Calm, Caching
  <2> QED
    BY <1>1, <1>2, <1>3, <2>2 DEF UpToDate
<1> QED
  BY <1>2, <1>3 DEF Sole, Calm, Busy

\* The steps that leave the details and Hardcover alone.
LEMMA OldShape ==
  ASSUME Inv, NEW o \in Ops
  PROVE  op[o] \in Operation /\ Shaped(op[o])
  BY DEF Inv, TypeOK, Operation, Shaped

LEMMA BesidesCalm ==
  ASSUME Inv, Sole, Calm, NEW o \in Ops,
         \/ Save(o) \/ Journal(o) \/ FillDates(o) \/ Unlist(o) \/ TellGrimmory(o)
         \/ Record(o) \/ StoreManual(o) \/ Mark(o) \/ Finish(o) \/ Fill(o) \/ TakeDates(o)
         \/ StartDate(o) \/ DropItem(o)
  PROVE  Sole' /\ Calm'
<1>1. ASSUME NEW step, At(o, step), Besides(step), Reads(o, op[o]), UNCHANGED <<details, remote, apart, recovered>>,
             UNCHANGED faults \/ \E answer : Call(answer)
      PROVE  Sole' /\ Calm'
  <2>1. faults' = 0 => faults = 0
    BY <1>1, CalmCall
  <2> QED
    BY <1>1, <2>1, OldShape, BesideCalm
<1>2. \A step \in {"save", "journal", "dates", "unlist", "grimmory", "record", "set", "mark", "finish", "fill",
                   "take_dates", "tbr_dates", "tbr_done"} : Besides(step)
  BY DEF Besides, Leads, Pushes
<1>3. CASE Save(o)
  <2> DEFINE b == [op[o].b EXCEPT !.status = op[o].to]
             r == [op[o] EXCEPT !.b = b]
  <2>1. At(o, "save") /\ Reads(o, r) /\ UNCHANGED <<details, remote, apart, recovered, faults>>
    BY <1>3 DEF Save, mirror
  <2>2. Shaped(r)
    BY OldShape DEF Shaped
  <2> HIDE DEF r
  <2> QED
    BY <1>2, <2>1, <2>2, BesideCalm
<1>4. CASE Journal(o)
  BY <1>1, <1>2, <1>4 DEF Journal, mirror, history
<1>5. CASE FillDates(o)
  BY <1>1, <1>2, <1>5 DEF FillDates, mirror, history
<1>6. CASE Unlist(o)
  BY <1>1, <1>2, <1>6 DEF Unlist, mirror
<1>7. CASE TellGrimmory(o)
  BY <1>1, <1>2, <1>7 DEF TellGrimmory, mirror
<1>8. CASE Record(o)
  BY <1>1, <1>2, <1>8 DEF Record, mirror, history
<1>9. CASE StoreManual(o)
  BY <1>1, <1>2, <1>9 DEF StoreManual, mirror, history
<1>10. CASE Mark(o)
  BY <1>1, <1>2, <1>10 DEF Mark, mirror, history
<1>11. CASE Finish(o)
  BY <1>1, <1>2, <1>11 DEF Finish, mirror
<1>12. CASE Fill(o)
  BY <1>1, <1>2, <1>12 DEF Fill, mirror, history
<1>13. CASE TakeDates(o)
  BY <1>1, <1>2, <1>13 DEF TakeDates, mirror, history
<1>14. CASE StartDate(o)
  BY <1>1, <1>2, <1>14 DEF StartDate, mirror, history
<1>15. CASE DropItem(o)
  BY <1>1, <1>2, <1>15 DEF DropItem, mirror
<1> QED
  BY <1>3, <1>4, <1>5, <1>6, <1>7, <1>8, <1>9, <1>10, <1>11, <1>12, <1>13, <1>14, <1>15

LEMMA ImportCalm ==
  ASSUME Inv, Sole, Calm, NEW o \in Ops, ImportItem(o)
  PROVE  Sole' /\ Calm'
<1>1. At(o, "import") /\ UNCHANGED <<details, remote, recovered, apart, faults>>
  BY DEF ImportItem, mirror
<1>2. CASE Reads(o, op[o])
  <2>1. Besides("import")
    BY DEF Besides, Leads, Pushes
  <2> QED
    BY <1>1, <1>2, <2>1, OldShape, BesideCalm
<1>3. ASSUME NEW list, op' = [op EXCEPT ![o] = [op[o] EXCEPT !.list = list]]
      PROVE  Sole' /\ Calm'
  <2>1. \A p \in Ops \ {o} : op'[p].todo = op[p].todo
    BY <1>3 DEF Inv, TypeOK
  <2>2. op'[o].todo = op[o].todo
    <3>1. op'[o] = [op[o] EXCEPT !.list = list]
      BY <1>3 DEF Inv, TypeOK
    <3> QED
      BY <3>1, OldShape DEF Shaped
  <2>3. Busy(o) /\ op[o].todo[1] = "import"
    BY <1>1, AtStep DEF Busy
  <2>4. Quiet' => UpToDate(op[o])' /\ Alike'
    <3> SUFFICES ASSUME Quiet'
                 PROVE  UpToDate(op[o])' /\ Alike'
      OBVIOUS
    <3>1. Quiet
      BY <1>1 DEF Quiet
    <3>2. Alike'
      BY <1>1, <3>1, WasCalm DEF Alike
    <3>3. UpToDate(op[o])'
      BY <2>2, <2>3 DEF UpToDate, Follows, PushSteps
    <3> QED
      BY <3>2, <3>3
  <2> QED
    BY <1>1, <2>1, <2>3, <2>4, StepCalm
<1> QED
  BY <1>2, <1>3 DEF ImportItem

\* A change of status, or a push, of what was looked at.
LEMMA CourseOpens ==
  ASSUME NEW from \in Statuses, NEW to \in Statuses, NEW source \in DOMAIN Effects
  PROVE  LET c == Course(from, to, source) IN
         c # << >> => c[1] \notin Follows /\ c[1] # "link"
<1> DEFINE c == Course(from, to, source)
<1>1. Program(c) /\ Left(c) \subseteq CourseSteps /\ (c # << >> => c[1] \notin Follows)
  BY CourseFits
<1> HIDE DEF c
<1>2. c # << >> => c[1] \in CourseSteps
  BY <1>1, RestFits
<1> QED
  BY <1>1, <1>2 DEF c, CourseSteps

LEMMA TurnCalm ==
  ASSUME Inv, Sole, Calm, NEW o \in Ops, NEW step, At(o, step), step # "cache", NEW r, Shaped(r), NEW todo,
         op' = Go(o, r, todo), todo # << >> => todo[1] \notin Follows /\ todo[1] # "link",
         UNCHANGED <<details, remote, apart, recovered, faults>>
  PROVE  Sole' /\ Calm'
<1>1. Busy(o)
  BY AtStep DEF Busy
<1>2. Quiet' => Alike'
  <2> SUFFICES ASSUME Quiet'
               PROVE  Alike'
    OBVIOUS
  <2>1. Quiet
    BY DEF Quiet
  <2> QED
    BY <2>1, WasCalm DEF Alike
<1>3. todo # << >> => todo[1] # "cache"
  BY DEF Follows
<1> QED
  BY <1>1, <1>2, <1>3, GoCalm

LEMMA TurnsCalm ==
  ASSUME Inv, Sole, Calm, NEW o \in Ops, Verify(o) \/ Check(o) \/ Probe(o)
  PROVE  Sole' /\ Calm'
<1>1. {"completed", "active"} \subseteq Statuses /\ {"completion_sync", "auto_complete"} \subseteq DOMAIN Effects
  BY DEF Statuses, Effects
<1>2. op[o].b.status \in Statuses
  BY OldShape DEF Operation, Book
<1>3. ASSUME NEW to \in {"completed", "active"}, NEW source \in {"completion_sync", "auto_complete"}
      PROVE  /\ Shaped(Turn(op[o], to, source))
             /\ Turn(op[o], to, source).b = op[o].b
             /\ LET c == Course(op[o].b.status, to, source) IN
                c # << >> => c[1] \notin Follows /\ c[1] # "link"
  <2>1. to \in Statuses /\ source \in DOMAIN Effects
    BY <1>1
  <2>2. Turn(op[o], to, source) \in Operation /\ Turn(op[o], to, source).b = op[o].b
    BY <2>1, OldShape, Turned
  <2>3. LET c == Course(op[o].b.status, to, source) IN c # << >> => c[1] \notin Follows /\ c[1] # "link"
    BY <1>2, <2>1, CourseOpens
  <2>4. Shaped(Turn(op[o], to, source))
    BY <2>2 DEF Shaped, Operation
  <2> QED
    BY <2>2, <2>3, <2>4
<1>4. CASE Verify(o)
  <2> DEFINE r == Turn(op[o], "completed", "completion_sync")
             c == Course(op[o].b.status, "completed", "completion_sync")
             todo == If(r.b.status # "completed", c)
  <2>1. Shaped(r) /\ r.b = op[o].b /\ (c # << >> => c[1] \notin Follows /\ c[1] # "link")
    BY <1>3
  <2>2. op' = Go(o, r, todo) /\ At(o, "verify") /\ UNCHANGED <<details, remote, recovered, apart, faults>>
    BY <1>4, <2>1 DEF Verify, mirror
  <2> HIDE DEF r, c
  <2>3. todo # << >> => todo[1] \notin Follows /\ todo[1] # "link"
    BY <2>1 DEF If
  <2> HIDE DEF todo
  <2> QED
    BY <2>1, <2>2, <2>3, TurnCalm
<1>5. CASE Probe(o)
  <2> DEFINE r == Turn(op[o], "active", "completion_sync")
             c == Course(op[o].b.status, "active", "completion_sync")
  <2>1. Shaped(r) /\ r.b = op[o].b /\ (c # << >> => c[1] \notin Follows /\ c[1] # "link")
    BY <1>3
  <2>2. /\ \E p \in Percents : op' = Go(o, r, If(p > 1, c))
        /\ At(o, "probe") /\ UNCHANGED <<details, remote, recovered, apart, faults>>
    BY <1>5, <2>1 DEF Probe, mirror
  <2> HIDE DEF r, c
  <2>3. PICK todo : op' = Go(o, r, todo) /\ (todo = c \/ todo = << >>)
    BY <2>2 DEF If
  <2> QED
    BY <2>1, <2>2, <2>3, TurnCalm
<1>6. CASE Check(o)
  <2> DEFINE r == Turn(op[o], "completed", "auto_complete")
             c == Course(op[o].b.status, "completed", "auto_complete")
             p == PushCourse \o <<"mark", "finish">>
             both == c \o p
             todo == If(progress >= 99, both)
  <2>1. Shaped(r) /\ r.b = op[o].b /\ (c # << >> => c[1] \notin Follows /\ c[1] # "link") /\ Program(c)
    BY <1>1, <1>2, <1>3, CourseFits
  <2>2. Block(p) /\ p # << >> /\ p[1] = "push"
    BY TwoSteps, PushThen
  <2>3. both = Course(op[o].b.status, "completed", "auto_complete") \o PushCourse \o <<"mark", "finish">>
    <3>1. c \in Seq(Steps) /\ PushCourse \in Seq(Steps) /\ <<"mark", "finish">> \in Seq(Steps)
      BY <2>1, PushFits, Known DEF Block, Program
    <3> HIDE DEF c
    <3>2. c \o (PushCourse \o <<"mark", "finish">>) = (c \o PushCourse) \o <<"mark", "finish">>
      BY <3>1, ConcatAssociative
    <3> QED
      BY <3>2 DEF c
  <2>4. op' = Go(o, r, todo) /\ At(o, "check") /\ UNCHANGED <<details, remote, recovered, apart, faults>>
    BY <1>6, <2>1, <2>3 DEF Check, mirror
  <2> HIDE DEF r, c, p
  <2>5. both # << >> => both[1] \notin Follows /\ both[1] # "link"
    BY <2>1, <2>2, Joined, Known
  <2> HIDE DEF both
  <2>6. todo # << >> => todo[1] \notin Follows /\ todo[1] # "link"
    BY <2>5 DEF If
  <2> HIDE DEF todo
  <2> QED
    BY <2>1, <2>4, <2>6, TurnCalm
<1> QED
  BY <1>4, <1>5, <1>6

\* The steps that go by the details, or change them or Hardcover.
LEMMA CalmAt ==
  ASSUME Inv, Sole, Calm, NEW o \in Ops, NEW step, At(o, step), UNCHANGED <<apart, recovered>>,
         UNCHANGED faults \/ \E answer : Call(answer), Quiet'
  PROVE  /\ step \in Follows => op[o].d = details
         /\ step = "link" => op[o].d.user = None
         /\ step = "cache" => Telling(op[o])
         /\ step # "cache" => Alike
         /\ WholeLink(details)
<1>1. faults' = 0 => faults = 0
  BY CalmCall
<1>2. Quiet
  BY <1>1 DEF Quiet
<1> QED
  BY <1>2, WasCalm

LEMMA ToldStatus ==
  ASSUME Inv, NEW h \in HcBooks, NEW status, NEW answer
  PROVE  LET told == Told(remote, h, status, answer) IN
         /\ Took(answer) => told[h].status = status
         /\ ~Took(answer) => told = remote
         /\ \A g \in HcBooks : g # h => told[g].status = remote[g].status
<1>1. remote \in [HcBooks -> Remote]
  BY DEF Inv, TypeOK
<1>2. PICK row \in Remote : row = remote[h]
  BY <1>1
<1> DEFINE new == [row EXCEPT !.status = status]
<1>3. new.status = status
  BY DEF Remote
<1>4. Took(answer) => Told(remote, h, status, answer) = [remote EXCEPT ![h] = new]
  BY <1>2 DEF Told
<1> HIDE DEF new
<1>5. ~Took(answer) => Told(remote, h, status, answer) = remote
  BY DEF Told
<1> QED
  BY <1>1, <1>3, <1>4, <1>5

LEMMA ReadStatus ==
  ASSUME Inv, NEW h \in HcBooks, NEW n, NEW row
  PROVE  \A g \in HcBooks : WithRead(remote, h, n, row)[g].status = remote[g].status
<1>1. remote \in [HcBooks -> Remote]
  BY DEF Inv, TypeOK
<1>2. PICK entry \in Remote : entry = remote[h]
  BY <1>1
<1> DEFINE reads == [i \in 1 .. (IF n > Len(entry.reads) THEN n ELSE Len(entry.reads)) |->
                       IF i = n THEN row ELSE entry.reads[i]]
           new == [entry EXCEPT !.reads = reads]
<1>3. WithRead(remote, h, n, row) = [remote EXCEPT ![h] = new]
  BY <1>2 DEF WithRead
<1> HIDE DEF reads
<1>4. new.status = entry.status
  BY DEF Remote
<1> HIDE DEF new
<1> QED
  BY <1>1, <1>2, <1>3, <1>4

\* What the details say of the user's entry is at the linked book, if anywhere.
LEMMA AlikeStays ==
  ASSUME Inv, Alike, WholeLink(details), details'.hc = details.hc, details'.user = details.user,
         details'.status = details.status,
         \A h \in HcBooks : remote'[h].status = remote[h].status \/ remote'[h].status \notin {Read, Dnf}
  PROVE  Alike'
<1>1. details.user # None => details.hc \in HcBooks
  BY DEF WholeLink, Inv, TypeOK, Details
<1> QED
  BY <1>1 DEF Alike

LEMMA PushCalm ==
  ASSUME Inv, Sole, Calm, NEW o \in Ops, Initial(o) \/ Push(o)
  PROVE  Sole' /\ Calm'
<1>1. UNCHANGED <<details, remote, recovered, apart, faults>>
  BY DEF Initial, Push, mirror
<1>2. ASSUME NEW step \in {"initial", "push"}, At(o, step), Quiet'
      PROVE  Alike'
  <2>1. Alike
    BY <1>1, <1>2, CalmAt
  <2> QED
    BY <1>1, <2>1 DEF Alike
<1>3. ASSUME NEW step \in {"initial", "push"}, At(o, step), GivesUp(o)
      PROVE  Sole' /\ Calm'
  <2>1. step \in Pushes \cup {"send"}
    BY DEF Pushes
  <2> QED
    BY <1>1, <1>2, <1>3, <2>1, StopsCalm
<1>4. CASE Initial(o)
  <2> DEFINE r == [op[o] EXCEPT !.pct = progress, !.b = book]
  <2>1. At(o, "initial") /\ (GivesUp(o) \/ Reads(o, r))
    BY <1>4 DEF Initial
  <2>2. Shaped(r)
    BY OldShape DEF Shaped
  <2> HIDE DEF r
  <2> QED
    BY <1>1, <1>2, <1>3, <2>1, <2>2, ReadsCalm
<1>5. CASE Push(o)
  <2> DEFINE r == [op[o] EXCEPT !.d = details]
  <2>1. At(o, "push") /\ (GivesUp(o) \/ Reads(o, r))
    BY <1>5 DEF Push
  <2>2. Shaped(r) /\ r.d = details
    BY OldShape DEF Shaped
  <2> HIDE DEF r
  <2> QED
    BY <1>1, <1>2, <1>3, <2>1, <2>2, ReadsCalm
<1> QED
  BY <1>4, <1>5

LEMMA TellCalm ==
  ASSUME Inv, Sole, Calm, NEW o \in Ops, TellStatus(o)
  PROVE  Sole' /\ Calm'
<1>1. UNCHANGED <<details, recovered, apart>> /\ At(o, "status")
  BY DEF TellStatus
<1>2. CASE details.hc = None
  <2> DEFINE s == op[o].todo
             rest == Tail(s)
             last == Tail(rest)
  <2>1. op' = Go(o, op[o], last) /\ UNCHANGED <<remote, faults>>
    BY <1>2 DEF TellStatus, Rest
  <2>2. Program(s) /\ s # << >> /\ s[1] = "status"
    BY <1>1, AtStep
  <2> HIDE DEF s
  <2>3. Program(rest) /\ rest # << >> /\ rest[1] = "cache"
    <3>1. Program(rest) /\ (s[1] \in Leads => rest # << >> /\ rest[1] = After[s[1]])
      BY <2>2, RestFits
    <3> QED
      BY <2>2, <3>1 DEF After, Leads
  <2> HIDE DEF rest
  <2>4. /\ Program(last) /\ Left(last) \cap Firsts = {}
        /\ last # << >> => last[1] \notin Follows
    <3>1. /\ Program(last) /\ Left(last) \cap Firsts = {}
          /\ last # << >> /\ last[1] \in Follows => rest[1] \in Leads
      BY <2>3, RestFits
    <3> QED
      BY <2>3, <3>1 DEF Leads, Pushes
  <2> HIDE DEF last
  <2>5. last # << >> => last[1] \notin Follows /\ last[1] # "link"
    <3>1. last # << >> => last[1] \in Left(last)
      BY <2>4, RestFits
    <3> QED
      BY <2>4, <3>1 DEF Firsts
  <2> QED
    BY <1>1, <2>1, <2>5, OldShape, TurnCalm
<1>3. CASE details.hc # None
  <2>1. PICK answer \in Answers :
          /\ Call(answer)
          /\ remote' = Told(remote, details.hc, LocalToHc[op[o].to], answer)
          /\ Reads(o, [op[o] EXCEPT !.d = details])
    BY <1>3 DEF TellStatus
  <2> DEFINE r == [op[o] EXCEPT !.d = details]
  <2>2. Shaped(r) /\ r.d = details' /\ r.to = op[o].to
    BY <1>1, OldShape DEF Shaped
  <2>3. Quiet' => details'.hc \in HcBooks /\ remote'[details'.hc].status = LocalToHc[r.to]
    <3> SUFFICES ASSUME Quiet'
                 PROVE  details'.hc \in HcBooks /\ remote'[details'.hc].status = LocalToHc[r.to]
      OBVIOUS
    <3>1. answer = "done"
      BY <2>1, CalmCall DEF Quiet
    <3>2. details.hc \in HcBooks
      BY <1>3 DEF Inv, TypeOK, Details
    <3>3. Took(answer)
      BY <3>1 DEF Took
    <3>4. remote'[details.hc].status = LocalToHc[op[o].to]
      BY <2>1, <3>2, <3>3, ToldStatus
    <3> QED
      BY <1>1, <2>2, <3>2, <3>4
  <2>4. Reads(o, r)
    BY <2>1
  <2> HIDE DEF r
  <2> QED
    BY <1>1, <2>2, <2>3, <2>4, ReadsCalm
<1> QED
  BY <1>2, <1>3

LEMMA CacheCalm ==
  ASSUME Inv, Sole, Calm, NEW o \in Ops, CacheStatus(o)
  PROVE  Sole' /\ Calm'
<1>1. /\ UNCHANGED <<remote, recovered, apart, faults>> /\ At(o, "cache") /\ Reads(o, op[o])
      /\ details' = [op[o].d EXCEPT !.status = LocalToHc[op[o].to]]
  BY DEF CacheStatus, SavedDetails
<1>2. Quiet' => Alike'
  <2> SUFFICES ASSUME Quiet'
               PROVE  Alike'
    OBVIOUS
  <2>1. op[o].d = details /\ Telling(op[o])
    BY <1>1, CalmAt DEF Follows
  <2>2. PICK d \in Details : d = details
    BY DEF Inv, TypeOK
  <2>3. details'.status = LocalToHc[op[o].to] /\ details'.hc = details.hc
    <3>1. details' = [d EXCEPT !.status = LocalToHc[op[o].to]]
      BY <1>1, <2>1, <2>2
    <3> QED
      BY <2>2, <3>1 DEF Details
  <2> QED
    BY <1>1, <2>1, <2>3 DEF Telling, Alike
<1>3. "cache" \notin Leads
  BY DEF Leads, Pushes
<1> QED
  BY <1>1, <1>2, <1>3, OldShape, ReadsCalm

LEMMA AdoptCalm ==
  ASSUME Inv, Sole, Calm, NEW o \in Ops, Adopt(o)
  PROVE  Sole' /\ Calm'
<1>1. UNCHANGED <<remote, recovered, apart>> /\ At(o, "adopt")
  BY DEF Adopt
<1>2. PICK d \in Details : d = op[o].d
  BY OldShape DEF Operation
<1>3. "adopt" \in Follows /\ "adopt" \in Pushes
  BY DEF Follows, PushSteps, Pushes
<1>4. ASSUME UNCHANGED details, UNCHANGED faults \/ \E answer : Call(answer), Quiet'
      PROVE  Alike' /\ op[o].d = details'
  <2>1. Alike /\ op[o].d = details
    BY <1>1, <1>3, <1>4, CalmAt
  <2> QED
    BY <1>1, <1>4, <2>1 DEF Alike
<1>5. CASE d.user # None
  <2>1. Reads(o, op[o]) /\ UNCHANGED <<details, faults>>
    BY <1>2, <1>5 DEF Adopt
  <2> QED
    BY <1>1, <1>4, <2>1, OldShape, ReadsCalm
<1>6. CASE d.user = None
  <2> DEFINE e == Adopted(d, remote)
             r == [op[o] EXCEPT !.d = e]
  <2>1. PICK answer \in {"done", "refused"} :
          /\ Call(answer)
          /\ \/ details' = e /\ Reads(o, r)
             \/ GivesUp(o) /\ UNCHANGED details
    BY <1>2, <1>6 DEF Adopt, SavedDetails
  <2>2. CASE GivesUp(o) /\ UNCHANGED details
    BY <1>1, <1>3, <1>4, <2>1, <2>2, StopsCalm
  <2>3. CASE details' = e /\ Reads(o, r)
    <3>1. e.hc = d.hc /\ e.status = remote[d.hc].status
      BY DEF Adopted, Details
    <3>2. Alike'
      BY <1>1, <2>3, <3>1 DEF Alike
    <3> HIDE DEF e
    <3>3. Shaped(r) /\ r.d = e
      BY OldShape DEF Shaped
    <3> HIDE DEF r
    <3> QED
      BY <1>1, <2>3, <3>2, <3>3, ReadsCalm
  <2> QED
    BY <2>1, <2>2, <2>3
<1> QED
  BY <1>5, <1>6

LEMMA EditionsCalm ==
  ASSUME Inv, Sole, Calm, NEW o \in Ops, Editions(o)
  PROVE  Sole' /\ Calm'
<1>1. UNCHANGED <<remote, recovered, apart>>
  BY DEF Editions
<1>2. PICK step \in {"editions", "resolve"} : At(o, step) /\ (At(o, "resolve") => step = "resolve")
  BY DEF Editions, At
<1>3. PICK d \in Details : d = op[o].d
  BY OldShape DEF Operation
<1>4. PICK answer \in {"done", "refused"} :
        LET e == Resolved(d, answer)
        IN  /\ Call(answer)
            /\ details' = IF d.edition = None THEN e ELSE details
            /\ IF e.edition = "none" /\ At(o, "resolve")
               THEN op' = Go(o, op[o], AfterPush(o))
               ELSE Reads(o, [op[o] EXCEPT !.d = e])
  BY <1>3 DEF Editions, SavedDetails
<1> DEFINE e == Resolved(d, answer)
           r == [op[o] EXCEPT !.d = e]
<1>5. e.hc = d.hc /\ e.user = d.user /\ e.status = d.status /\ (d.edition # None => e = d)
  BY DEF Resolved, Details
<1>6. Quiet' => Alike' /\ e = details'
  <2> SUFFICES ASSUME Quiet'
               PROVE  Alike' /\ e = details'
    OBVIOUS
  <2>1. step \in Follows /\ step # "cache"
    BY DEF Follows, PushSteps
  <2>2. Alike /\ d = details /\ WholeLink(details)
    BY <1>1, <1>2, <1>3, <1>4, <2>1, CalmAt
  <2>3. details' = e
    BY <1>4, <1>5, <2>2
  <2> HIDE DEF e
  <2> QED
    BY <1>1, <1>5, <2>2, <2>3, AlikeStays
<1>7. CASE Reads(o, r)
  <2> HIDE DEF e
  <2>1. Shaped(r) /\ r.d = e
    BY OldShape DEF Shaped
  <2>2. step # "status"
    BY <1>2
  <2> HIDE DEF r
  <2> QED
    BY <1>1, <1>2, <1>6, <1>7, <2>1, <2>2, ReadsCalm
<1>8. CASE At(o, "resolve") /\ op' = Go(o, op[o], AfterPush(o))
  <2>1. "resolve" \in Pushes
    BY DEF Pushes
  <2> QED
    BY <1>1, <1>6, <1>8, <2>1, StopsCalm
<1> QED
  BY <1>4, <1>7, <1>8

LEMMA AdvanceCalm ==
  ASSUME Inv, Sole, Calm, NEW o \in Ops, Advance(o)
  PROVE  Sole' /\ Calm'
<1>1. UNCHANGED <<recovered, apart>> /\ At(o, "advance")
  BY DEF Advance
<1>2. "advance" \in Follows /\ "advance" # "status" /\ "advance" # "cache"
  BY DEF Follows, PushSteps
<1>3. op[o].d.hc \in HcBooks
  BY <1>1, AtStep DEF PushSteps
<1>4. PICK d \in Details : d = op[o].d
  BY OldShape DEF Operation
<1> DEFINE status == StatusFor(Cached(d), op[o].pct)
<1>5. CASE status = Cached(d)
  <2>1. Reads(o, op[o]) /\ UNCHANGED <<details, remote, faults>>
    BY <1>4, <1>5 DEF Advance
  <2>2. Quiet' => Alike' /\ op[o].d = details'
    <3> SUFFICES ASSUME Quiet'
                 PROVE  Alike' /\ op[o].d = details'
      OBVIOUS
    <3>1. Alike /\ op[o].d = details
      BY <1>1, <1>2, <2>1, CalmAt
    <3> QED
      BY <2>1, <3>1 DEF Alike
  <2> QED
    BY <1>1, <1>2, <2>1, <2>2, OldShape, ReadsCalm
<1>6. CASE status # Cached(d)
  <2> DEFINE e == [d EXCEPT !.status = status]
             r == [op[o] EXCEPT !.d = e]
  <2>1. PICK answer \in Answers :
          /\ Call(answer)
          /\ remote' = Told(remote, d.hc, status, answer)
          /\ details' = e
          /\ Reads(o, r)
    <3>1. [op[o] EXCEPT !.d.status = status] = r
      BY <1>4
    <3> QED
      BY <1>4, <1>6, <3>1 DEF Advance, SavedDetails
  <2> HIDE DEF status
  <2>2. e.hc = d.hc /\ e.status = status
    BY DEF Details
  <2>3. Quiet' => Alike'
    <3> SUFFICES ASSUME Quiet'
                 PROVE  Alike'
      OBVIOUS
    <3>1. Took(answer)
      BY <2>1, CalmCall DEF Quiet, Took
    <3>2. remote'[d.hc].status = status
      BY <1>3, <1>4, <2>1, <3>1, ToldStatus
    <3> QED
      BY <2>1, <2>2, <3>2 DEF Alike
  <2> HIDE DEF e
  <2>4. Shaped(r) /\ r.d = e
    BY OldShape DEF Shaped
  <2> HIDE DEF r
  <2> QED
    BY <1>1, <1>2, <2>1, <2>3, <2>4, ReadsCalm
<1> QED
  BY <1>5, <1>6

LEMMA SendCalm ==
  ASSUME Inv, Sole, Calm, NEW o \in Ops, Send(o)
  PROVE  Sole' /\ Calm'
<1>1. UNCHANGED <<recovered, apart>> /\ At(o, "send")
  BY DEF Send
<1>2. "send" \in Follows /\ "send" \notin Leads /\ "send" # "cache"
  BY DEF Follows, PushSteps, Leads, Pushes
<1>3. PICK d \in Details : d = op[o].d
  BY OldShape DEF Operation
<1>4. d.user \in HcBooks
  BY <1>1, <1>3, AtStep DEF PushSteps
<1>5. PICK lookup, answer, n, dates :
        /\ Call(IF lookup = "done" THEN answer ELSE lookup)
        /\ remote' = WithRead(remote, d.user, n, dates) \/ UNCHANGED remote
        /\ \/ details' = [d EXCEPT !.read = n] /\ Reads(o, [op[o] EXCEPT !.d.read = n])
           \/ GivesUp(o) /\ UNCHANGED details
  BY <1>3 DEF Send, SavedDetails
<1>6. \A h \in HcBooks : remote'[h].status = remote[h].status
  BY <1>4, <1>5, ReadStatus
<1>7. ASSUME Quiet'
      PROVE  Alike'
  <2>1. Alike /\ op[o].d = details /\ WholeLink(details)
    BY <1>1, <1>2, <1>5, <1>7, CalmAt
  <2>2. details'.hc = details.hc /\ details'.user = details.user /\ details'.status = details.status
    <3>1. CASE UNCHANGED details
      BY <3>1
    <3>2. CASE details' = [d EXCEPT !.read = n]
      BY <1>3, <2>1, <3>2 DEF Details
    <3> QED
      BY <1>5, <3>1, <3>2
  <2> QED
    BY <1>6, <2>1, <2>2, AlikeStays
<1>8. CASE GivesUp(o)
  BY <1>1, <1>7, <1>8, StopsCalm
<1>9. CASE Reads(o, [op[o] EXCEPT !.d.read = n])
  <2> DEFINE r == [op[o] EXCEPT !.d.read = n]
  <2>1. Shaped(r) /\ Reads(o, r)
    BY <1>9, OldShape DEF Shaped
  <2> HIDE DEF r
  <2> QED
    BY <1>1, <1>2, <1>7, <2>1, ReadsCalm DEF Leads
<1> QED
  BY <1>5, <1>8, <1>9

LEMMA LinkCalm ==
  ASSUME Inv, Sole, Calm, NEW o \in Ops, SaveLink(o)
  PROVE  Sole' /\ Calm'
<1>1. /\ UNCHANGED <<remote, recovered, apart, faults>> /\ At(o, "link") /\ Reads(o, op[o])
      /\ details' = op[o].d
  BY DEF SaveLink, SavedDetails
<1>2. Quiet' => Alike'
  <2> SUFFICES ASSUME Quiet'
               PROVE  Alike'
    OBVIOUS
  <2>1. op[o].d.user = None
    BY <1>1, CalmAt
  <2> QED
    BY <1>1, <2>1 DEF Alike
<1> QED
  BY <1>1, <1>2, OldShape, ReadsCalm

LEMMA OwnCalm ==
  ASSUME Inv, Sole, Calm, NEW o \in Ops, Own(o)
  PROVE  Sole' /\ Calm'
<1>1. UNCHANGED <<recovered, apart>> /\ At(o, "own")
  BY DEF Own
<1>2. "own" \in Follows /\ "own" \notin Leads
  BY DEF Follows, Leads, Pushes
<1>3. PICK d \in Details : d = op[o].d
  BY OldShape DEF Operation
<1>4. d.hc \in HcBooks
  BY <1>1, <1>3, AtStep DEF ForBook
<1> DEFINE status == LocalToHc[op[o].b.status]
<1>5. PICK lookup \in {"done", "refused"}, create \in Answers :
        /\ Call(IF lookup = "done" THEN create ELSE lookup)
        /\ details' = IF Owned(d, remote, status, lookup, create) = d THEN details
                      ELSE Owned(d, remote, status, lookup, create)
        /\ remote' = OwnedRemote(d, remote, status, lookup, create)
        /\ Reads(o, [op[o] EXCEPT !.d = Owned(d, remote, status, lookup, create)])
  BY <1>3 DEF Own, SavedDetails
<1> HIDE DEF status
<1>6. Quiet' => Alike'
  <2> SUFFICES ASSUME Quiet'
               PROVE  Alike'
    OBVIOUS
  <2>1. (IF lookup = "done" THEN create ELSE lookup) = "done"
    BY <1>5, CalmCall DEF Quiet
  <2>2. lookup = "done" /\ create = "done" /\ Took(create)
    BY <2>1 DEF Took
  <2>3. Alike /\ op[o].d = details
    BY <1>1, <1>2, <1>5, CalmAt
  <2>4. CASE ~NeedsUserBook(d)
    <3>1. UNCHANGED <<details, remote>>
      BY <1>5, <2>4 DEF Owned, OwnedRemote
    <3> QED
      BY <2>3, <3>1 DEF Alike
  <2>5. CASE NeedsUserBook(d) /\ Found(remote, d.hc, lookup)
    <3>1. remote' = remote /\ details' = Adopted(d, remote)
      BY <1>3, <1>5, <2>3, <2>5 DEF Owned, OwnedRemote
    <3>2. Adopted(d, remote).hc = d.hc /\ Adopted(d, remote).status = remote[d.hc].status
      BY DEF Adopted, Details
    <3> QED
      BY <3>1, <3>2 DEF Alike
  <2>6. CASE NeedsUserBook(d) /\ ~Found(remote, d.hc, lookup)
    <3> DEFINE e == [d EXCEPT !.user = d.hc, !.status = status]
    <3>1. details' = e /\ remote' = Told(remote, d.hc, status, create)
      BY <1>3, <1>5, <2>2, <2>3, <2>6 DEF Owned, OwnedRemote
    <3>2. e.hc = d.hc /\ e.status = status
      BY DEF Details
    <3>3. remote'[d.hc].status = status
      BY <1>4, <2>2, <3>1, ToldStatus
    <3> QED
      BY <3>1, <3>2, <3>3 DEF Alike
  <2> QED
    BY <2>4, <2>5, <2>6
<1> DEFINE r == [op[o] EXCEPT !.d = Owned(d, remote, status, lookup, create)]
<1>7. Shaped(r) /\ Reads(o, r)
  BY <1>5, OldShape DEF Shaped
<1> HIDE DEF r
<1> QED
  BY <1>1, <1>2, <1>6, <1>7, ReadsCalm DEF Leads

\* Dates and wishes sent leave no book read or given up.
LEMMA SentCalm ==
  ASSUME Inv, Sole, Calm, NEW o \in Ops, SendDates(o) \/ Want(o)
  PROVE  Sole' /\ Calm'
<1>1. PICK step \in {"send_dates", "want"} : At(o, step)
  BY DEF SendDates, Want
<1>2. UNCHANGED <<details, recovered, apart>> /\ Reads(o, op[o]) /\ \E answer : Call(answer)
  BY DEF SendDates, Want
<1>3. op[o].d.hc \in HcBooks
  BY <1>1, AtStep DEF ForBook
<1>4. \A h \in HcBooks : remote'[h].status = remote[h].status \/ remote'[h].status \notin {Read, Dnf}
  <2>1. CASE SendDates(o)
    <3>1. PICK n, row : remote' = WithRead(remote, op[o].d.hc, n, row) \/ UNCHANGED remote
      BY <2>1 DEF SendDates
    <3> QED
      BY <1>3, <3>1, ReadStatus
  <2>2. CASE Want(o)
    <3>1. PICK answer : remote' = Told(remote, op[o].d.hc, WantToRead, answer)
      BY <2>2 DEF Want
    <3>2. WantToRead \notin {Read, Dnf}
      BY DEF WantToRead, Read, Dnf
    <3> QED
      BY <1>3, <3>1, <3>2, ToldStatus
  <2> QED
    BY <2>1, <2>2
<1>5. Quiet' => Alike'
  <2> SUFFICES ASSUME Quiet'
               PROVE  Alike'
    OBVIOUS
  <2>1. Alike /\ WholeLink(details)
    BY <1>1, <1>2, CalmAt
  <2> QED
    BY <1>2, <1>4, <2>1, AlikeStays
<1>6. step \notin Leads
  BY DEF Leads, Pushes
<1> QED
  BY <1>1, <1>2, <1>5, <1>6, OldShape, ReadsCalm DEF Leads

LEMMA OwnStepsCalm ==
  ASSUME Inv, Sole, Calm, NEW o \in Ops,
         \/ Transition(o) \/ Pushing(o) \/ SaveLink(o) \/ Own(o) \/ Fill(o) \/ SendDates(o) \/ TakeDates(o)
         \/ StoreManual(o) \/ Mark(o) \/ Verify(o) \/ Check(o) \/ Finish(o) \/ Probe(o)
         \/ Want(o) \/ ImportItem(o) \/ StartDate(o) \/ DropItem(o)
  PROVE  Sole' /\ Calm'
<1>1. CASE Transition(o)
  BY <1>1, BesidesCalm, TellCalm, CacheCalm DEF Transition
<1>2. CASE Pushing(o)
  BY <1>2, BesidesCalm, PushCalm, AdoptCalm, EditionsCalm, AdvanceCalm, SendCalm DEF Pushing
<1> QED
  BY <1>1, <1>2, BesidesCalm, LinkCalm, OwnCalm, SentCalm, TurnsCalm, ImportCalm

\* Requests that start an operation.
Starts(o) ==
    \/ \E to \in Statuses : SetStatus(o, to)
    \/ \E p \in Percents : SetProgress(o, p)
    \/ MarkComplete(o) \/ AutoComplete(o) \/ Promote(o) \/ SyncPush(o)
    \/ \E h \in HcBooks : \E e \in {None} \cup ({h} \cap HasEdition) : LinkBook(o, h, e)
    \/ \E h \in HcBooks : Automatch(o, h)
    \/ Rate(o) \/ PushDates(o) \/ PullDates(o)
    \/ Import(o)
    \/ \E i \in ItemIds : StartItem(o, i)

LEMMA IdleShape ==
  Shaped(Idle) /\ Idle.d = NotLinked
  BY DEF Idle, Shaped

LEMMA PlainCalm ==
  ASSUME Inv, Sole, Calm, NEW o \in Ops, NEW kind, NEW r, Shaped(r), NEW todo, Start(o, kind, r, todo),
         todo # << >> => todo[1] \notin Follows /\ todo[1] # "link"
  PROVE  Sole' /\ Calm'
<1>1. todo # << >> => todo[1] # "cache"
  BY DEF Follows
<1> QED
  BY <1>1, StartCalm

LEMMA StatusCalm ==
  ASSUME Inv, Sole, Calm, NEW o \in Ops, NEW to \in Statuses, SetStatus(o, to)
  PROVE  Sole' /\ Calm'
<1> DEFINE r == [Turn(Idle, to, "local") EXCEPT !.from = book.status]
           c == Course(book.status, to, "local")
<1>1. Start(o, "status", r, c)
  BY DEF SetStatus
<1>2. "local" \in DOMAIN Effects /\ book.status \in Statuses
  BY Bools DEF Effects, Inv
<1>3. c # << >> => c[1] \notin Follows /\ c[1] # "link"
  BY <1>2, CourseOpens
<1>4. Shaped(r)
  BY IdleShape DEF Shaped, Turn
<1> HIDE DEF r, c
<1> QED
  BY <1>1, <1>3, <1>4, PlainCalm

LEMMA ProgressCalm ==
  ASSUME Inv, Sole, Calm, NEW o \in Ops, NEW p \in Percents, SetProgress(o, p)
  PROVE  Sole' /\ Calm'
<1> DEFINE r == [Turn(Idle, "active", "manual_progress") EXCEPT !.from = book.status, !.pct = p]
           course == Course("not_started", "active", "manual_progress")
           c == If(p > 0 /\ book.status = "not_started", course)
           x == <<"set">>
           part == c \o x
           all == part \o PushCourse
<1>1. Start(o, "progress", r, all)
  BY DEF SetProgress
<1>2. {"active", "not_started"} \subseteq Statuses /\ "manual_progress" \in DOMAIN Effects
  BY DEF Statuses, Effects
<1>3. Program(course) /\ (course # << >> => course[1] \notin Follows /\ course[1] # "link")
  BY <1>2, CourseFits, CourseOpens
<1>4. Block(x) /\ x # << >> /\ x[1] = "set"
  BY OneStep, Known
<1>5. Shaped(r)
  BY IdleShape DEF Shaped, Turn
<1> HIDE DEF r, course, x
<1>6. Program(c) /\ (c # << >> => c[1] \notin Follows /\ c[1] # "link")
  BY <1>3, NoSteps DEF If, Block
<1> HIDE DEF c
<1>7. Program(part) /\ part # << >> /\ part[1] \notin Follows /\ part[1] # "link"
  <2>1. /\ Program(part)
        /\ c # << >> => part # << >> /\ part[1] = c[1]
        /\ c = << >> => part = x
    BY <1>4, <1>6, Joined
  <2>2. "set" \notin Follows
    BY Known
  <2> HIDE DEF part
  <2> QED
    BY <1>4, <1>6, <2>1, <2>2
<1> HIDE DEF part
<1>8. all # << >> /\ all[1] = part[1]
  BY <1>7, PushFits, Joined
<1> HIDE DEF all
<1> QED
  BY <1>1, <1>5, <1>7, <1>8, PlainCalm

LEMMA PushesCalm ==
  ASSUME Inv, Sole, Calm, NEW o \in Ops, MarkComplete(o) \/ SyncPush(o)
  PROVE  Sole' /\ Calm'
<1>1. ASSUME NEW kind, NEW pct, NEW t, Block(t), Start(o, kind, [Idle EXCEPT !.pct = pct], PushCourse \o t)
      PROVE  Sole' /\ Calm'
  <2> DEFINE r == [Idle EXCEPT !.pct = pct]
             c == PushCourse \o t
  <2>1. c # << >> /\ c[1] = "push"
    BY <1>1, PushThen
  <2>2. Shaped(r) /\ Start(o, kind, r, c)
    BY <1>1, IdleShape DEF Shaped
  <2> HIDE DEF r, c
  <2> QED
    BY <2>1, <2>2, PlainCalm, Known
<1>2. Block(<<"mark", "verify">>) /\ Block(<<"record">>)
  BY TwoSteps, OneStep, Known
<1>3. CASE MarkComplete(o)
  <2> DEFINE t == <<"mark", "verify">>
  <2>1. Start(o, "complete", [Idle EXCEPT !.pct = 100], PushCourse \o t) /\ Block(t)
    BY <1>2, <1>3 DEF MarkComplete
  <2> HIDE DEF t
  <2> QED
    BY <1>1, <2>1
<1>4. CASE SyncPush(o)
  <2> DEFINE t == <<"record">>
  <2>1. Start(o, "sync", [Idle EXCEPT !.pct = progress], PushCourse \o t) /\ Block(t)
    BY <1>2, <1>4 DEF SyncPush
  <2> HIDE DEF t
  <2> QED
    BY <1>1, <2>1
<1> QED
  BY <1>3, <1>4

LEMMA OnesCalm ==
  ASSUME Inv, Sole, Calm, NEW o \in Ops,
         AutoComplete(o) \/ Promote(o) \/ PushDates(o) \/ PullDates(o) \/ Import(o) \/ Rate(o)
  PROVE  Sole' /\ Calm'
<1>1. ASSUME NEW kind, NEW r, Shaped(r), NEW step \in {"check", "probe", "send_dates", "take_dates", "import"},
             Start(o, kind, r, <<step>>)
      PROVE  Sole' /\ Calm'
  <2>1. <<step>>[1] \notin Follows /\ <<step>>[1] # "link"
    BY <1>1 DEF Follows, PushSteps
  <2> QED
    BY <1>1, <2>1, PlainCalm
<1>2. CASE AutoComplete(o)
  <2> DEFINE r == [Idle EXCEPT !.pct = 100]
  <2>1. Shaped(r) /\ Start(o, "auto", r, <<"check">>)
    BY <1>2, IdleShape DEF AutoComplete, Shaped
  <2> HIDE DEF r
  <2> QED
    BY <1>1, <2>1
<1>3. CASE Promote(o)
  BY <1>1, <1>3, IdleShape DEF Promote
<1> DEFINE loaded == [Idle EXCEPT !.d = details]
<1>4. Shaped(loaded) /\ loaded.d = details
  BY IdleShape DEF Shaped
<1>5. CASE PushDates(o) \/ PullDates(o)
  <2>1. /\ PushDates(o) => Start(o, "push_dates", loaded, <<"send_dates">>)
        /\ PullDates(o) => Start(o, "pull_dates", loaded, <<"take_dates">>)
    BY DEF PushDates, PullDates
  <2> HIDE DEF loaded
  <2>2. CASE PushDates(o)
    BY <1>1, <1>4, <2>1, <2>2
  <2>3. CASE PullDates(o)
    BY <1>1, <1>4, <2>1, <2>3
  <2> QED
    BY <1>5, <2>2, <2>3
<1>6. CASE Rate(o)
  <2>1. Start(o, "rate", loaded, <<"own">>)
    BY <1>6 DEF Rate
  <2>2. <<"own">>[1] # "cache" /\ <<"own">>[1] # "link"
    OBVIOUS
  <2> HIDE DEF loaded
  <2> QED
    BY <1>4, <2>1, <2>2, StartCalm
<1>7. CASE Import(o)
  <2>1. PICK list : Start(o, "import", [Idle EXCEPT !.list = list], <<"import">>)
    BY <1>7 DEF Import
  <2> DEFINE r == [Idle EXCEPT !.list = list]
  <2>2. Shaped(r) /\ Start(o, "import", r, <<"import">>)
    BY <2>1, IdleShape DEF Shaped
  <2> HIDE DEF r
  <2> QED
    BY <1>1, <2>2
<1> QED
  BY <1>2, <1>3, <1>5, <1>6, <1>7

LEMMA LinksCalm ==
  ASSUME Inv, Sole, Calm, NEW o \in Ops,
         \/ \E h \in HcBooks : \E e \in {None} \cup ({h} \cap HasEdition) : LinkBook(o, h, e)
         \/ \E h \in HcBooks : Automatch(o, h)
  PROVE  Sole' /\ Calm'
<1>1. PICK kind, h, e : Start(o, kind, [Idle EXCEPT !.d = Linked(h, e)], LinkCourse)
  BY DEF LinkBook, Automatch, LinkCourse
<1> DEFINE d == Linked(h, e)
           r == [Idle EXCEPT !.d = d]
<1>2. d.user = None
  BY DEF Linked, NotLinked
<1> HIDE DEF d
<1>3. Shaped(r) /\ r.d = d /\ Start(o, kind, r, LinkCourse)
  BY <1>1, IdleShape DEF Shaped, d
<1>4. LinkCourse[1] = "link" /\ "link" \notin Follows /\ "link" # "cache"
  BY LinkFitsProgram DEF Follows, PushSteps
<1> HIDE DEF r
<1> QED
  BY <1>2, <1>3, <1>4, StartCalm

LEMMA ItemCalm ==
  ASSUME Inv, Sole, Calm, NEW o \in Ops, NEW i \in ItemIds, StartItem(o, i)
  PROVE  Sole' /\ Calm'
<1> DEFINE c == <<"save", "tbr_dates", "journal", "status", "cache", "tbr_done">>
           r == [Idle EXCEPT !.to = "active", !.from = "not_started", !.item = i]
<1>1. Start(o, "start", r, c)
  BY DEF StartItem
<1>2. Shaped(r)
  BY IdleShape DEF Shaped
<1>3. c # << >> /\ c[1] = "save"
  OBVIOUS
<1> HIDE DEF c, r
<1> QED
  BY <1>1, <1>2, <1>3, PlainCalm, Known

LEMMA StartsCalm ==
  ASSUME Inv, Sole, Calm, NEW o \in Ops, Starts(o)
  PROVE  Sole' /\ Calm'
  BY StatusCalm, ProgressCalm, PushesCalm, OnesCalm, LinksCalm, ItemCalm DEF Starts

LEMMA AddCalm ==
  ASSUME Inv, Sole, Calm, NEW o \in Ops, NEW h \in HcBooks, AddItem(o, h)
  PROVE  Sole' /\ Calm'
<1>1. /\ apart' = (apart /\ \A p \in Ops : ~Busy(p)) /\ UNCHANGED <<details, remote, recovered, faults>>
      /\ \/ op' = Touched(op)
         \/ op' = Begun(o, [Idle EXCEPT !.d = Linked(h, None), !.b = book], <<"want">>)
  BY DEF AddItem, Request, mirror
<1>2. CASE op' = Touched(op)
  BY <1>1, <1>2, EditCalm DEF Alike
<1>3. CASE op' = Begun(o, [Idle EXCEPT !.d = Linked(h, None), !.b = book], <<"want">>)
  <2> DEFINE r == [Idle EXCEPT !.d = Linked(h, None), !.b = book]
             s == <<"want">>
  <2>1. Shaped(r) /\ op' = Begun(o, r, s)
    BY <1>3, IdleShape DEF Shaped
  <2>2. s[1] = "want" /\ "want" \notin Follows
    BY Known
  <2> HIDE DEF r, s
  <2> QED
    BY <1>1, <2>1, <2>2, BegunCalm
<1> QED
  BY <1>1, <1>2, <1>3

\* The user's edits, a report and a crash.
LEMMA EditsCalm ==
  ASSUME Inv, Sole, Calm, NEW kind, Edit(kind), UNCHANGED <<details, remote, recovered>>
  PROVE  Sole' /\ Calm'
<1>1. op' = Touched(op) /\ apart' = (apart /\ \A p \in Ops : ~Busy(p)) /\ UNCHANGED faults
  BY DEF Edit, Request
<1> QED
  BY <1>1, EditCalm DEF Alike

LEMMA PickCalm ==
  ASSUME Inv, Sole, Calm, NEW h \in HcBooks, PickCover(h)
  PROVE  Sole' /\ Calm'
<1>1. /\ op' = Touched(op) /\ apart' = (apart /\ \A p \in Ops : ~Busy(p)) /\ UNCHANGED <<faults, remote>>
      /\ recovered' = (recovered \/ details.hc \notin {None, h})
      /\ details' = [details EXCEPT !.hc = h]
  BY DEF PickCover, Edit, Request, SavedDetails
<1>2. PICK d \in Details : d = details
  BY DEF Inv, TypeOK
<1>3. details'.user = details.user /\ details'.hc = h /\ details'.status = details.status
  <2>1. details' = [d EXCEPT !.hc = h]
    BY <1>1, <1>2
  <2> QED
    BY <1>2, <2>1 DEF Details
<1>4. ASSUME ~recovered', Alike
      PROVE  Alike'
  <2>1. ~recovered /\ details.hc \in {None, h}
    BY <1>1, <1>4
  <2>2. WholeLink(details)
    BY <2>1 DEF Inv, Stored
  <2>3. CASE details.hc = None
    BY <1>3, <2>2, <2>3 DEF WholeLink, Alike
  <2>4. CASE details.hc = h
    BY <1>1, <1>3, <1>4, <2>4 DEF Alike
  <2> QED
    BY <2>1, <2>3, <2>4
<1>5. Quiet' /\ apart /\ Alike => Alike'
  BY <1>4 DEF Quiet
<1> QED
  BY <1>1, <1>5, EditCalm

LEMMA DeleteCalm ==
  ASSUME Inv, Sole, Calm, NEW i \in ItemIds, NEW everywhere \in BOOLEAN, DeleteItem(i, everywhere)
  PROVE  Sole' /\ Calm'
<1>1. PICK answer \in Answers :
        /\ op' = Touched(op) /\ apart' = (apart /\ \A p \in Ops : ~Busy(p)) /\ UNCHANGED <<details, recovered>>
        /\ Call(answer) /\ tbr[i] # None
        /\ remote' = IF everywhere /\ tbr[i].hc # None THEN Told(remote, tbr[i].hc, Ignored, answer) ELSE remote
  BY DEF DeleteItem, Request
<1>2. tbr[i].hc # None => tbr[i].hc \in HcBooks
  BY <1>1 DEF Inv, TypeOK, Item
<1>3. \A h \in HcBooks : remote'[h].status = remote[h].status \/ remote'[h].status \notin {Read, Dnf}
  <2>1. Ignored \notin {Read, Dnf}
    BY DEF Ignored, Read, Dnf
  <2>2. CASE everywhere /\ tbr[i].hc # None
    BY <1>1, <1>2, <2>1, <2>2, ToldStatus
  <2>3. CASE ~(everywhere /\ tbr[i].hc # None)
    BY <1>1, <2>3
  <2> QED
    BY <2>2, <2>3
<1>4. faults' = 0 => faults = 0
  BY <1>1, CalmCall
<1>5. ASSUME Quiet', Alike
      PROVE  Alike'
  <2>1. WholeLink(details)
    BY <1>1, <1>5 DEF Inv, Stored, Quiet
  <2> QED
    BY <1>1, <1>3, <1>5, <2>1, AlikeStays
<1> QED
  BY <1>1, <1>4, <1>5, EditCalm

LEMMA UserCalm ==
  ASSUME Inv, Sole, Calm, User \/ Crash \/ UNCHANGED vars
  PROVE  Sole' /\ Calm'
<1>1. ASSUME NEW p \in Percents, Report(p)
      PROVE  UNCHANGED <<op, details, remote, recovered, apart, faults>>
  BY <1>1 DEF Report, mirror
<1>2. ASSUME UNCHANGED <<op, details, remote, recovered, apart, faults>>
      PROVE  Sole' /\ Calm'
  BY <1>2 DEF Sole, Calm, Busy, Quiet, UpToDate, Telling, Caching, Alike
<1>3. CASE UNCHANGED vars
  BY <1>2, <1>3 DEF vars
<1>4. CASE Crash
  <2>1. faults' # 0
    BY <1>4, TrackerAssumption DEF Crash, Inv, TypeOK
  <2>2. \A o \in Ops : ~Busy(o)'
    BY <1>4, IdleFits DEF Crash, Busy
  <2> QED
    BY <2>1, <2>2 DEF Sole, Calm, Quiet
<1>5. ASSUME NEW kind, Edit(kind), UNCHANGED <<details, remote, recovered>>
      PROVE  Sole' /\ Calm'
  BY <1>5, EditsCalm
<1>6. ASSUME NEW s \in Dates, NEW f \in Dates, EditDates(s, f)
      PROVE  Sole' /\ Calm'
  BY <1>5, <1>6 DEF EditDates, mirror
<1>7. ASSUME NEW e \in DOMAIN journal, DeleteEntry(e) \/ EditEntry(e)
      PROVE  Sole' /\ Calm'
  BY <1>5, <1>7 DEF DeleteEntry, EditEntry, mirror
<1>8. CASE AddFromLibrary
  BY <1>5, <1>8 DEF AddFromLibrary, mirror
<1>9. ASSUME NEW i \in ItemIds, NEW yes \in BOOLEAN, LinkItem(i, yes)
      PROVE  Sole' /\ Calm'
  BY <1>5, <1>9 DEF LinkItem, mirror
<1>10. ASSUME NEW i \in ItemIds, NEW h \in HcBooks, PatchItem(i, h)
       PROVE  Sole' /\ Calm'
  BY <1>5, <1>10 DEF PatchItem, mirror
<1> QED
  BY <1>1, <1>2, <1>3, <1>4, <1>6, <1>7, <1>8, <1>9, <1>10, PickCalm, DeleteCalm DEF User

LEMMA NextCalm ==
  ASSUME Inv, Sole, Calm, [Next]_vars
  PROVE  Sole' /\ Calm'
<1>1. ASSUME NEW o \in Ops, Transition(o) \/ Pushing(o)
      PROVE  Sole' /\ Calm'
  BY <1>1, OwnStepsCalm
<1>2. ASSUME NEW o \in Ops, Linking(o)
      PROVE  Sole' /\ Calm'
  BY <1>2, OwnStepsCalm, StartsCalm DEF Linking, Starts
<1>3. ASSUME NEW o \in Ops, Tracking(o)
      PROVE  Sole' /\ Calm'
  BY <1>3, OwnStepsCalm, StartsCalm DEF Tracking, Starts
<1>4. ASSUME NEW o \in Ops, Listing(o)
      PROVE  Sole' /\ Calm'
  BY <1>4, OwnStepsCalm, StartsCalm, AddCalm DEF Listing, Starts
<1> QED
  BY <1>1, <1>2, <1>3, <1>4, UserCalm DEF Next

LEMMA InitCalm ==
  ASSUME Init
  PROVE  Sole /\ Calm
<1>1. \A o \in Ops : op[o].todo = << >>
  BY IdleFits DEF Init
<1>2. PICK h \in HasEdition, linked \in BOOLEAN :
        /\ details = IF linked THEN [Linked(h, h) EXCEPT !.user = h, !.status = LocalToHc[book.status]] ELSE NotLinked
        /\ remote = [g \in HcBooks |-> [status |-> IF linked /\ g = h THEN LocalToHc[book.status] ELSE NoBook,
                                        reads |-> << >>]]
  BY DEF Init
<1>3. Alike
  <2>1. h \in HcBooks
    BY HardcoverAssumption
  <2>2. CASE linked
    <3>1. details.hc = h /\ details.status = LocalToHc[book.status]
      BY <1>2, <2>2 DEF Linked, NotLinked
    <3>2. remote[h].status = LocalToHc[book.status]
      BY <1>2, <2>1, <2>2
    <3> QED
      BY <3>1, <3>2 DEF Alike
  <2>3. CASE ~linked
    BY <1>2, <2>3 DEF NotLinked, Alike
  <2> QED
    BY <2>2, <2>3
<1>4. \A o \in Ops : UpToDate(op[o])
  BY <1>1 DEF UpToDate
<1> QED
  BY <1>1, <1>3, <1>4 DEF Sole, Calm, Busy

\* While an operation is alone, what is not a step of its own leaves its steps as they are.
LEMMA TodoStays ==
  ASSUME Inv, NEW o \in Ops, Busy(o)
  PROVE  /\ Touched(op)[o].todo = op[o].todo
         /\ \A p \in Ops : ~Busy(p) => \A r, todo : Begun(p, r, todo)[o].todo = op[o].todo
<1>1. PICK q \in Operation : q = op[o]
  BY OldShape
<1> DEFINE marked == [q EXCEPT !.clean = FALSE]
<1>2. marked.todo = q.todo
  BY DEF Operation
<1>3. Touched(op)[o] = marked
  BY <1>1 DEF Touched, Busy
<1> HIDE DEF marked
<1>4. ASSUME NEW p \in Ops, NEW r, NEW todo, ~Busy(p)
      PROVE  Begun(p, r, todo)[o] = Touched(op)[o]
  BY <1>4 DEF Begun, Touched
<1> QED
  BY <1>1, <1>2, <1>3, <1>4

LEMMA StartKeeps ==
  ASSUME Inv, NEW o \in Ops, Busy(o), NEW p \in Ops, Starts(p)
  PROVE  op'[o].todo = op[o].todo
<1>1. ASSUME NEW kind, NEW r, NEW todo, Start(p, kind, r, todo)
      PROVE  op'[o].todo = op[o].todo
  BY <1>1, TodoStays DEF Start
<1>2. ASSUME NEW to \in Statuses, SetStatus(p, to)
      PROVE  op'[o].todo = op[o].todo
  BY <1>1, <1>2 DEF SetStatus
<1>3. ASSUME NEW pct \in Percents, SetProgress(p, pct)
      PROVE  op'[o].todo = op[o].todo
  BY <1>1, <1>3 DEF SetProgress
<1>4. ASSUME NEW i \in ItemIds, StartItem(p, i)
      PROVE  op'[o].todo = op[o].todo
  BY <1>1, <1>4 DEF StartItem
<1>5. ASSUME NEW h, NEW e, LinkBook(p, h, e) \/ Automatch(p, h)
      PROVE  op'[o].todo = op[o].todo
  BY <1>1, <1>5 DEF LinkBook, Automatch
<1>6. MarkComplete(p) \/ AutoComplete(p) \/ Promote(p) \/ SyncPush(p) => op'[o].todo = op[o].todo
  BY <1>1 DEF MarkComplete, AutoComplete, Promote, SyncPush
<1>7. Rate(p) \/ PushDates(p) \/ PullDates(p) \/ Import(p) => op'[o].todo = op[o].todo
  BY <1>1 DEF Rate, PushDates, PullDates, Import
<1> QED
  BY <1>2, <1>3, <1>4, <1>5, <1>6, <1>7 DEF Starts

LEMMA UserKeeps ==
  ASSUME Inv, NEW o \in Ops, Busy(o), User
  PROVE  op'[o].todo = op[o].todo
<1>1. op' = Touched(op) \/ UNCHANGED op
  BY DEF User, PickCover, EditDates, DeleteEntry, EditEntry, AddFromLibrary, DeleteItem, LinkItem, PatchItem,
         Report, Edit
<1> QED
  BY <1>1, TodoStays

\* Each step is taken where it is the next one.
OtherStep(o) ==
    \/ Transition(o) \/ Initial(o) \/ Push(o) \/ Adopt(o) \/ Editions(o) \/ Send(o) \/ Record(o)
    \/ SaveLink(o) \/ Own(o) \/ Fill(o) \/ SendDates(o) \/ TakeDates(o)
    \/ StoreManual(o) \/ Mark(o) \/ Verify(o) \/ Check(o) \/ Finish(o) \/ Probe(o)
    \/ Want(o) \/ ImportItem(o) \/ StartDate(o) \/ DropItem(o)

LEMMA OtherSteps ==
  ASSUME NEW o \in Ops, OtherStep(o)
  PROVE  \E step : At(o, step) /\ step # "advance"
<1>1. Save(o) => At(o, "save")
  BY DEF Save
<1>2. Journal(o) => At(o, "journal")
  BY DEF Journal
<1>3. FillDates(o) => At(o, "dates")
  BY DEF FillDates
<1>4. TellStatus(o) => At(o, "status")
  BY DEF TellStatus
<1>5. CacheStatus(o) => At(o, "cache")
  BY DEF CacheStatus
<1>6. Unlist(o) => At(o, "unlist")
  BY DEF Unlist
<1>7. TellGrimmory(o) => At(o, "grimmory")
  BY DEF TellGrimmory
<1>8. Initial(o) => At(o, "initial")
  BY DEF Initial
<1>9. Push(o) => At(o, "push")
  BY DEF Push
<1>10. Adopt(o) => At(o, "adopt")
  BY DEF Adopt
<1>11. Send(o) => At(o, "send")
  BY DEF Send
<1>12. Record(o) => At(o, "record")
  BY DEF Record
<1>13. SaveLink(o) => At(o, "link")
  BY DEF SaveLink
<1>14. Own(o) => At(o, "own")
  BY DEF Own
<1>15. Fill(o) => At(o, "fill")
  BY DEF Fill
<1>16. SendDates(o) => At(o, "send_dates")
  BY DEF SendDates
<1>17. TakeDates(o) => At(o, "take_dates")
  BY DEF TakeDates
<1>18. StoreManual(o) => At(o, "set")
  BY DEF StoreManual
<1>19. Mark(o) => At(o, "mark")
  BY DEF Mark
<1>20. Verify(o) => At(o, "verify")
  BY DEF Verify
<1>21. Check(o) => At(o, "check")
  BY DEF Check
<1>22. Finish(o) => At(o, "finish")
  BY DEF Finish
<1>23. Probe(o) => At(o, "probe")
  BY DEF Probe
<1>24. Want(o) => At(o, "want")
  BY DEF Want
<1>25. ImportItem(o) => At(o, "import")
  BY DEF ImportItem
<1>26. StartDate(o) => At(o, "tbr_dates")
  BY DEF StartDate
<1>27. DropItem(o) => At(o, "tbr_done")
  BY DEF DropItem
<1>28. Editions(o) => At(o, "editions") \/ At(o, "resolve")
  BY DEF Editions
<1> QED
  BY <1>1, <1>2, <1>3, <1>4, <1>5, <1>6, <1>7, <1>8, <1>9, <1>10, <1>11, <1>12, <1>13, <1>14, <1>15, <1>16, <1>17, <1>18, <1>19, <1>20, <1>21, <1>22, <1>23, <1>24, <1>25, <1>26, <1>27, <1>28 DEF OtherStep, Transition

\* Only the steps of its own move an operation that is alone, and a crash.
LEMMA OwnStep ==
  ASSUME Inv, Sole, apart, NEW o \in Ops, At(o, "advance"), [Next]_vars, op'[o].todo # op[o].todo, faults' = 0
  PROVE  Advance(o)
<1>1. Busy(o) /\ op[o].todo[1] = "advance"
  BY AtStep DEF Busy
<1>2. ASSUME NEW p \in Ops, NEW step, At(p, step)
      PROVE  p = o /\ step = "advance"
  <2>1. Busy(p) /\ op[p].todo[1] = step
    BY <1>2, AtStep DEF Busy
  <2> QED
    BY <1>1, <2>1 DEF Sole
<1>3. ASSUME NEW p \in Ops
      PROVE  ~OtherStep(p)
  BY <1>2, OtherSteps
<1>4. ASSUME NEW p \in Ops, Transition(p) \/ Pushing(p)
      PROVE  Advance(o)
  <2>1. Advance(p) => p = o
    BY <1>2 DEF Advance
  <2> QED
    BY <1>3, <1>4, <2>1 DEF Pushing, OtherStep
<1>5. ASSUME NEW p \in Ops
      PROVE  ~Starts(p)
  BY <1>1, StartKeeps
<1>6. ASSUME NEW p \in Ops
      PROVE  ~Linking(p)
  BY <1>3, <1>5 DEF Linking, Starts, OtherStep
<1>7. ASSUME NEW p \in Ops
      PROVE  ~Tracking(p)
  BY <1>3, <1>5 DEF Tracking, Starts, OtherStep
<1>8. ASSUME NEW p \in Ops
      PROVE  ~Listing(p)
  <2>1. ASSUME NEW h \in HcBooks, AddItem(p, h)
        PROVE  FALSE
    BY <1>1, <2>1, TodoStays DEF AddItem
  <2> QED
    BY <1>3, <1>5, <2>1 DEF Listing, Starts, OtherStep
<1>9. ~User
  BY <1>1, UserKeeps
<1>10. ~Crash
  <2>1. Crash => faults' = faults + 1
    BY DEF Crash
  <2>2. faults \in Nat
    BY TrackerAssumption DEF Inv, TypeOK
  <2>3. faults + 1 # 0
    BY <2>2
  <2> QED
    BY <2>1, <2>3
<1>11. ~UNCHANGED vars
  BY DEF vars
<1> QED
  BY <1>4, <1>6, <1>7, <1>8, <1>9, <1>10, <1>11 DEF Next

\* A push in the calm goes by what Hardcover has.
LEMMA VerdictKept ==
  ASSUME Inv, Sole, Calm, apart, ~recovered, faults' = 0, NEW o \in Ops, Advance(o),
         NEW h \in HcBooks, remote[h].status \in {Read, Dnf}
  PROVE  remote'[h].status = remote[h].status
<1>1. At(o, "advance") /\ UNCHANGED <<apart, recovered>>
  BY DEF Advance
<1>2. PICK d \in Details : d = op[o].d
  BY OldShape DEF Operation
<1> DEFINE status == StatusFor(Cached(d), op[o].pct)
<1>3. CASE status = Cached(d)
  BY <1>2, <1>3 DEF Advance
<1>4. CASE status # Cached(d)
  <2>1. PICK answer \in Answers : Call(answer) /\ remote' = Told(remote, d.hc, status, answer)
    BY <1>2, <1>4 DEF Advance
  <2>2. Quiet'
    BY <1>1 DEF Quiet
  <2>3. d = details /\ Alike /\ WholeLink(details)
    BY <1>1, <1>2, <2>1, <2>2, CalmAt DEF Follows, PushSteps
  <2>4. d.hc \in HcBooks /\ d.user # None
    BY <1>1, <1>2, AtStep, HardcoverAssumption DEF PushSteps
  <2>5. d.status \notin {Read, Dnf}
    BY <1>4 DEF StatusFor, Cached, Read, Dnf, WantToRead, CurrentlyReading, Paused, NoBook
  <2>6. d.hc # h
    BY <2>3, <2>4, <2>5 DEF Alike
  <2> HIDE DEF status
  <2> QED
    BY <2>1, <2>4, <2>6, ToldStatus
<1> QED
  BY <1>3, <1>4

\* A push never takes a book at Hardcover out of read or given up, as long as operations and
\* edits came one at a time, all calls were answered and no other cover was picked.
THEOREM VerdictStaysCorrect == Spec => VerdictStays
<1>1. Init => Inv /\ Sole /\ Calm
  BY InitInv, InitCalm
<1>2. Inv /\ Sole /\ Calm /\ [Next]_vars => (Inv /\ Sole /\ Calm)'
  BY NextInv, NextCalm
<1> DEFINE kept == \A o \in Ops : \A h \in HcBooks :
                     (/\ At(o, "advance") /\ apart /\ faults' = 0 /\ ~recovered
                      /\ op'[o].todo # op[o].todo
                      /\ remote[h].status \in {Read, Dnf})
                     => remote'[h].status = remote[h].status
<1>3. Inv /\ Sole /\ Calm /\ [Next]_vars => [kept]_vars
  BY OwnStep, VerdictKept
<1> QED
  BY <1>1, <1>2, <1>3, PTL DEF Spec, VerdictStays
-----------------------------------------------------------------------------
(***************************************************************************)
(* A change of status that nothing overlaps does all of it: what it owes   *)
(* is done, or is a step that it has left.                                 *)
(***************************************************************************)
CleanAlone == \A p, q \in Ops : op[p].clean /\ Busy(p) /\ Busy(q) => p = q
Turning(r) == r.clean /\ r.source # None /\ r.from # r.to

ChangeSteps == CourseSteps \cup {"set", "push", "mark", "finish"} \cup PushSteps
Once(s) == \A j, k \in 1 .. Len(s) : s[j] = s[k] => j = k
Plan(r, s) ==
    /\ Once(s) /\ Left(s) \subseteq ChangeSteps
    /\ r.source = "local" => Left(s) \subseteq CourseSteps
    /\ r.source = "manual_progress" => r.to = "active"

\* The status is saved, or will be: a progress set on a paused book changes none.
Due(r, s) == "save" \in Left(s) \/ r.b.status = r.to

Dated(to) == (to = "active" => book.started # None) /\ (to = "completed" => book.finished # None)

\* The dates are filled in the row that was saved.
BookKept(r, s) ==
    /\ "save" \notin Left(s) /\ r.b.status = r.to
          => book.status = r.to /\ ("dates" \in Left(s) => book = r.b)
    /\ "save" \in Left(s) => "dates" \in Left(s)
    /\ Due(r, s) => "dates" \in Left(s) \/ Dated(r.to)
JournalKept(r, s) ==
    Due(r, s) /\ r.to = "completed" => "journal" \in Left(s) \/ journal.finished > 0
ListKept(r, s) ==
    Due(r, s) /\ r.to \in Reading /\ r.source # "manual_progress"
    => "unlist" \in Left(s) \/ \A i \in ItemIds : tbr[i] = None \/ ~tbr[i].linked
GrimmoryKept(r, s) ==
    Due(r, s) /\ r.to = "completed" /\ r.source # "manual_progress"
    => "grimmory" \in Left(s) \/ "finish" \in Left(s) \/ faults # 0 \/ grimmory = "READ"

\* What was told is cached in the details that were loaded.
MirrorKept(r, s) ==
    r.source = "local"
    => /\ s # << >> /\ s[1] = "cache" => r.d = details
       /\ Due(r, s) => \/ "status" \in Left(s) \/ faults # 0
                       \/ details.hc = None \/ remote[details.hc].status = LocalToHc[r.to]
OnCourse(r, s) ==
    Plan(r, s) /\ BookKept(r, s) /\ JournalKept(r, s) /\ ListKept(r, s) /\ GrimmoryKept(r, s) /\ MirrorKept(r, s)

Whole == CleanAlone /\ \A o \in Ops : Busy(o) /\ Turning(op[o]) => OnCourse(op[o], op[o].todo)

\* What ChangeIsWhole says of one operation.
Finishes(o) ==
    (/\ Done(o) /\ op[o].clean /\ op[o].source # None /\ op[o].from # op[o].to
     /\ faults' = 0 /\ op[o].b.status = op[o].to)
    => /\ book'.status = op[o].to
       /\ op[o].to = "active" => book'.started # None
       /\ op[o].to = "completed" => book'.finished # None
       /\ op[o].to = "completed" => journal'.finished > 0
       /\ (op[o].to \in Reading /\ op[o].source # "manual_progress")
             => \A i \in ItemIds : tbr'[i] = None \/ ~tbr'[i].linked
       /\ (op[o].to = "completed" /\ op[o].source # "manual_progress") => grimmory' = "READ"
       /\ (op[o].source = "local" /\ details'.hc # None)
             => remote'[details'.hc].status = LocalToHc[op[o].to]

Fielded(r) == {"todo", "b", "d", "to", "from", "source", "clean"} \subseteq DOMAIN r

LEMMA OnceRest ==
  ASSUME NEW s, Program(s), s # << >>, Once(s)
  PROVE  Once(Tail(s)) /\ Left(Tail(s)) = Left(s) \ {s[1]}
<1> DEFINE r == Tail(s)
<1>1. s \in Seq(Steps) /\ Len(s) \in Nat /\ Len(s) # 0
  BY DEF Program
<1>2. /\ r \in Seq(Steps) /\ Len(r) = Len(s) - 1
      /\ \A k \in 1 .. Len(r) : r[k] = s[k + 1]
  BY <1>1, HeadTailProperties
<1> HIDE DEF r
<1>3. \A k \in 1 .. Len(r) : k + 1 \in 1 .. Len(s) /\ k + 1 # 1
  BY <1>1, <1>2
<1>4. Once(r)
  <2> SUFFICES ASSUME NEW j \in 1 .. Len(r), NEW k \in 1 .. Len(r), r[j] = r[k]
               PROVE  j = k
    BY DEF Once
  <2>1. j + 1 \in 1 .. Len(s) /\ k + 1 \in 1 .. Len(s) /\ s[j + 1] = s[k + 1]
    BY <1>2, <1>3
  <2>2. j + 1 = k + 1
    BY <2>1 DEF Once
  <2> QED
    BY <1>2, <2>2
<1>5. \A x \in Left(r) : x \in Left(s) \ {s[1]}
  <2> SUFFICES ASSUME NEW k \in 1 .. Len(r)
               PROVE  r[k] \in Left(s) \ {s[1]}
    BY DEF Left
  <2>1. k + 1 \in 1 .. Len(s) /\ k + 1 # 1 /\ r[k] = s[k + 1] /\ 1 \in 1 .. Len(s)
    BY <1>1, <1>2, <1>3
  <2>2. s[k + 1] # s[1]
    BY <2>1 DEF Once
  <2> QED
    BY <2>1, <2>2 DEF Left
<1>6. \A x \in Left(s) \ {s[1]} : x \in Left(r)
  <2> SUFFICES ASSUME NEW k \in 1 .. Len(s), s[k] # s[1]
               PROVE  s[k] \in Left(r)
    BY DEF Left
  <2>1. k - 1 \in 1 .. Len(r) /\ (k - 1) + 1 = k
    BY <1>1, <1>2
  <2>2. r[k - 1] = s[k]
    BY <1>2, <2>1
  <2> QED
    BY <2>1, <2>2 DEF Left
<1> QED
  BY <1>4, <1>5, <1>6 DEF r

\* What a push that is given up leaves out is its own.
LEMMA OnceAfter ==
  ASSUME NEW s, Program(s), Once(s), s # << >>, s[1] \in (Pushes \ {"initial"}) \cup {"send"},
         NEW k \in 1 .. Len(s), s[k] = "send"
  PROVE  LET r == SubSeq(s, k + 1, Len(s)) IN
         Once(r) /\ Left(r) \subseteq Left(s) /\ Left(s) \subseteq Left(r) \cup {"push"} \cup PushSteps
<1> DEFINE r == SubSeq(s, k + 1, Len(s))
<1>1. s \in Seq(Steps) /\ Len(s) \in Nat /\ 1 \in 1 .. Len(s)
  BY DEF Program
<1>2. /\ r \in Seq(Steps) /\ Len(r) = Len(s) - k /\ Len(r) \in Nat
      /\ \A j \in 1 .. Len(r) : r[j] = s[j + k]
  <2>1. /\ r \in Seq(Steps) /\ Len(r) = (IF k + 1 <= Len(s) THEN Len(s) - (k + 1) + 1 ELSE 0)
        /\ \A j \in 1 .. Len(s) - (k + 1) + 1 : r[j] = s[(k + 1) + j - 1]
    <3>1. k + 1 \in 1 .. Len(s) + 1 /\ Len(s) \in k .. Len(s)
      BY <1>1
    <3> QED
      BY <1>1, <3>1, SubSeqProperties
  <2> HIDE DEF r
  <2>2. Len(r) = Len(s) - k /\ Len(r) \in Nat
    BY <1>1, <2>1
  <2>3. \A j \in 1 .. Len(r) : j \in 1 .. Len(s) - (k + 1) + 1 /\ (k + 1) + j - 1 = j + k
    BY <1>1, <2>2
  <2> QED
    BY <2>1, <2>2, <2>3
<1> HIDE DEF r
<1>3. \A j \in 1 .. Len(r) : j + k \in 1 .. Len(s)
  BY <1>1, <1>2
<1>4. Once(r)
  <2> SUFFICES ASSUME NEW i \in 1 .. Len(r), NEW j \in 1 .. Len(r), r[i] = r[j]
               PROVE  i = j
    BY DEF Once
  <2>1. i + k = j + k
    BY <1>2, <1>3 DEF Once
  <2> QED
    BY <1>2, <2>1
<1>5. Left(r) \subseteq Left(s)
  BY <1>2, <1>3 DEF Left
<1>6. \A i \in 1 .. Len(s) : s[i] \in Pushes => i + 1 \in 1 .. Len(s) /\ s[i + 1] = After[s[i]]
  BY <1>1 DEF Program, Leads
<1>7. \A i \in 1 .. Len(s) : s[i] = "send" => i = k
  BY DEF Once
<1> DEFINE own == {"push"} \cup PushSteps
<1>8. \A i \in 1 .. k : s[i] \in own
  <2>1. s[1] = "send" => k = 1
    BY <1>1, <1>7
  <2>2. ASSUME NEW i \in 1 .. Len(s), s[i] = "advance"
        PROVE  i + 1 = k
    BY <1>6, <1>7, <2>2 DEF Pushes, After
  <2>3. ASSUME NEW i \in 1 .. Len(s), s[i] = "resolve"
        PROVE  s[i + 1] = "advance" /\ (i + 1) + 1 = k
    <3>1. i + 1 \in 1 .. Len(s) /\ s[i + 1] = "advance"
      BY <1>6, <2>3 DEF Pushes, After
    <3> QED
      BY <2>2, <3>1
  <2>4. ASSUME NEW i \in 1 .. Len(s), s[i] = "adopt"
        PROVE  s[i + 1] = "resolve" /\ s[(i + 1) + 1] = "advance" /\ ((i + 1) + 1) + 1 = k
    <3>1. i + 1 \in 1 .. Len(s) /\ s[i + 1] = "resolve"
      BY <1>6, <2>4 DEF Pushes, After
    <3> QED
      BY <2>3, <3>1
  <2>5. ASSUME NEW i \in 1 .. Len(s), s[i] = "push"
        PROVE  /\ s[i + 1] = "adopt" /\ s[(i + 1) + 1] = "resolve" /\ s[((i + 1) + 1) + 1] = "advance"
               /\ (((i + 1) + 1) + 1) + 1 = k
    <3>1. i + 1 \in 1 .. Len(s) /\ s[i + 1] = "adopt"
      BY <1>6, <2>5 DEF Pushes, After
    <3> QED
      BY <2>4, <3>1
  <2>6. CASE s[1] = "send"
    BY <2>1, <2>6 DEF PushSteps
  <2>7. CASE s[1] = "advance"
    <3>1. k = 2
      BY <1>1, <2>2, <2>7
    <3>2. \A i \in 1 .. k : i = 1 \/ i = k
      BY <3>1
    <3> QED
      BY <2>7, <3>2 DEF PushSteps
  <2>8. CASE s[1] = "resolve"
    <3>1. k = 3 /\ s[2] = "advance"
      BY <1>1, <2>3, <2>8
    <3>2. \A i \in 1 .. k : i = 1 \/ i = 2 \/ i = k
      BY <3>1
    <3> QED
      BY <2>8, <3>1, <3>2 DEF PushSteps
  <2>9. CASE s[1] = "adopt"
    <3>1. k = 4 /\ s[2] = "resolve" /\ s[3] = "advance"
      BY <1>1, <2>4, <2>9
    <3>2. \A i \in 1 .. k : i = 1 \/ i = 2 \/ i = 3 \/ i = k
      BY <3>1
    <3> QED
      BY <2>9, <3>1, <3>2 DEF PushSteps
  <2>10. CASE s[1] = "push"
    <3>1. k = 5 /\ s[2] = "adopt" /\ s[3] = "resolve" /\ s[4] = "advance"
      BY <1>1, <2>5, <2>10
    <3>2. \A i \in 1 .. k : i = 1 \/ i = 2 \/ i = 3 \/ i = 4 \/ i = k
      BY <3>1
    <3> QED
      BY <2>10, <3>1, <3>2 DEF PushSteps
  <2> QED
    BY <2>6, <2>7, <2>8, <2>9, <2>10 DEF Pushes
<1>9. \A x \in Left(s) : x \in Left(r) \/ x \in own
  <2> SUFFICES ASSUME NEW i \in 1 .. Len(s)
               PROVE  s[i] \in Left(r) \/ s[i] \in own
    BY DEF Left
  <2>1. CASE i <= k
    BY <1>8, <2>1
  <2>2. CASE ~(i <= k)
    <3>1. i - k \in 1 .. Len(r) /\ (i - k) + k = i
      BY <1>1, <1>2, <2>2
    <3>2. r[i - k] = s[i]
      BY <1>2, <3>1
    <3> QED
      BY <3>1, <3>2 DEF Left
  <2> QED
    BY <2>1, <2>2
<1> QED
  BY <1>4, <1>5, <1>9 DEF r

LEMMA OnceJoined ==
  ASSUME NEW s, NEW t, Program(s), Program(t), Once(s), Once(t), Left(s) \cap Left(t) = {}
  PROVE  Once(s \o t)
<1> DEFINE c == s \o t
<1>1. s \in Seq(Steps) /\ t \in Seq(Steps) /\ Len(s) \in Nat /\ Len(t) \in Nat
  BY DEF Program
<1>2. /\ c \in Seq(Steps) /\ Len(c) = Len(s) + Len(t)
      /\ \A k \in 1 .. Len(c) : c[k] = IF k <= Len(s) THEN s[k] ELSE t[k - Len(s)]
  BY <1>1, ConcatProperties
<1> HIDE DEF c
<1>3. ASSUME NEW k \in 1 .. Len(c)
      PROVE  \/ k \in 1 .. Len(s) /\ c[k] = s[k] /\ c[k] \in Left(s)
             \/ k - Len(s) \in 1 .. Len(t) /\ c[k] = t[k - Len(s)] /\ c[k] \in Left(t)
  <2>1. CASE k <= Len(s)
    <3>1. k \in 1 .. Len(s) /\ c[k] = s[k]
      BY <1>1, <1>2, <2>1
    <3> QED
      BY <3>1 DEF Left
  <2>2. CASE ~(k <= Len(s))
    <3>1. k - Len(s) \in 1 .. Len(t) /\ c[k] = t[k - Len(s)]
      BY <1>1, <1>2, <2>2
    <3> QED
      BY <3>1 DEF Left
  <2> QED
    BY <2>1, <2>2
<1>4. ASSUME NEW j \in 1 .. Len(c), NEW k \in 1 .. Len(c), c[j] = c[k]
      PROVE  j = k
  <2>1. CASE c[j] \in Left(s)
    <3>1. j \in 1 .. Len(s) /\ c[j] = s[j] /\ k \in 1 .. Len(s) /\ c[k] = s[k]
      BY <1>3, <1>4, <2>1
    <3> QED
      BY <1>4, <3>1 DEF Once
  <2>2. CASE c[j] \notin Left(s)
    <3>1. /\ j - Len(s) \in 1 .. Len(t) /\ c[j] = t[j - Len(s)]
          /\ k - Len(s) \in 1 .. Len(t) /\ c[k] = t[k - Len(s)]
      BY <1>3, <1>4, <2>2
    <3>2. j - Len(s) = k - Len(s)
      BY <1>4, <3>1 DEF Once
    <3> QED
      BY <1>1, <1>2, <3>2
  <2> QED
    BY <2>1, <2>2
<1> QED
  BY <1>4 DEF Once, c

\* Where one operation goes on and the others stay.
LEMMA OwnWhole ==
  ASSUME Inv, Whole, NEW o \in Ops, Busy(o), NEW q, Fielded(q), NEW rest, op' = Go(o, q, rest),
         q.clean = op[o].clean, Turning(q) => OnCourse(q, rest)',
         Turning(op[o]) => /\ Turning(q) /\ q.source = op[o].source /\ q.to = op[o].to
                           /\ (op[o].b.status = op[o].to => q.b.status = q.to)
  PROVE  Whole' /\ \A p \in Ops : Finishes(p)
<1>1. \A p \in Ops \ {o} : op'[p] = op[p]
  BY DEF Go, Inv, TypeOK
<1>2. CASE rest = << >>
  <2>1. op'[o] = Idle /\ Idle.todo = << >>
    BY <1>2, IdleFits DEF Go, Inv, TypeOK
  <2>2. CleanAlone'
    BY <1>1, <2>1 DEF Whole, CleanAlone, Busy
  <2>3. \A p \in Ops : Busy(p)' /\ Turning(op[p])' => OnCourse(op[p], op[p].todo)'
    <3> SUFFICES ASSUME NEW p \in Ops, Busy(p)', Turning(op[p])'
                 PROVE  OnCourse(op[p], op[p].todo)'
      OBVIOUS
    <3>1. p # o /\ op'[p] = op[p]
      BY <1>1, <2>1 DEF Busy
    <3>2. op[p].clean /\ Busy(p)
      BY <3>1 DEF Busy, Turning
    <3> QED
      BY <3>1, <3>2 DEF Whole, CleanAlone
  <2>4. Finishes(o)
    <3> SUFFICES ASSUME Turning(op[o]), faults' = 0, op[o].b.status = op[o].to
                 PROVE  Finishes(o)
      BY DEF Finishes, Turning
    <3>1. /\ OnCourse(q, << >>)' /\ q.source = op[o].source /\ q.to = op[o].to /\ q.b.status = q.to
      BY <1>2
    <3>2. Left(<< >>) = {}
      BY NoSteps
    <3>3. book'.status = q.to /\ Dated(q.to)'
      BY <3>1, <3>2 DEF OnCourse, BookKept, Due
    <3>4. q.to = "completed" => journal'.finished > 0
      BY <3>1, <3>2 DEF OnCourse, JournalKept, Due
    <3>5. q.to \in Reading /\ q.source # "manual_progress" => \A i \in ItemIds : tbr'[i] = None \/ ~tbr'[i].linked
      BY <3>1, <3>2 DEF OnCourse, ListKept, Due
    <3>6. q.to = "completed" /\ q.source # "manual_progress" => grimmory' = "READ"
      BY <3>1, <3>2 DEF OnCourse, GrimmoryKept, Due
    <3>7. q.source = "local" => details'.hc = None \/ remote'[details'.hc].status = LocalToHc[q.to]
      BY <3>1, <3>2 DEF OnCourse, MirrorKept, Due
    <3> QED
      BY <3>1, <3>3, <3>4, <3>5, <3>6, <3>7 DEF Finishes, Dated
  <2> QED
    BY <1>1, <2>2, <2>3, <2>4 DEF Whole, Finishes, Done
<1>3. CASE rest # << >>
  <2> DEFINE r == [q EXCEPT !.todo = rest]
  <2>1. op'[o] = r
    BY <1>3 DEF Go, Inv, TypeOK
  <2>2. /\ r.todo = rest /\ r.b = q.b /\ r.d = q.d /\ r.to = q.to /\ r.from = q.from
        /\ r.source = q.source /\ r.clean = q.clean
    BY DEF Fielded
  <2> HIDE DEF r
  <2>3. CleanAlone'
    BY <1>1, <2>1, <2>2 DEF Whole, CleanAlone, Busy
  <2>4. Turning(op[o])' => OnCourse(op[o], op[o].todo)'
    <3> SUFFICES ASSUME Turning(op[o])'
                 PROVE  OnCourse(op[o], op[o].todo)'
      OBVIOUS
    <3>1. OnCourse(q, rest)'
      BY <2>1, <2>2 DEF Turning
    <3> QED
      BY <2>1, <2>2, <3>1 DEF OnCourse, Plan, Due, BookKept, JournalKept, ListKept, GrimmoryKept, MirrorKept
  <2>5. \A p \in Ops : Busy(p)' /\ Turning(op[p])' => OnCourse(op[p], op[p].todo)'
    <3> SUFFICES ASSUME NEW p \in Ops, p # o, Busy(p)', Turning(op[p])'
                 PROVE  FALSE
      BY <2>4
    <3>1. op[p].clean /\ Busy(p)
      BY <1>1 DEF Busy, Turning
    <3> QED
      BY <3>1 DEF Whole, CleanAlone
  <2> QED
    BY <1>1, <1>3, <2>1, <2>2, <2>3, <2>5 DEF Whole, Finishes, Done
<1> QED
  BY <1>2, <1>3

\* A request marks what is under way.
LEMMA MarkedWhole ==
  ASSUME Inv, NEW o \in Ops
  PROVE  /\ Touched(op)[o].todo = op[o].todo
         /\ Busy(o) => ~Touched(op)[o].clean
<1>1. PICK q \in Operation : q = op[o]
  BY OldShape
<1> DEFINE marked == [q EXCEPT !.clean = FALSE]
<1>2. marked.todo = q.todo /\ ~marked.clean
  BY DEF Operation
<1>3. Touched(op)[o] = IF q.todo # << >> THEN marked ELSE q
  BY <1>1 DEF Touched
<1> HIDE DEF marked
<1> QED
  BY <1>1, <1>2, <1>3 DEF Busy

LEMMA EditWhole ==
  ASSUME Inv, Whole, op' = Touched(op)
  PROVE  Whole' /\ \A p \in Ops : Finishes(p)
<1>1. \A p \in Ops : op'[p].todo = op[p].todo /\ (Busy(p) => ~op'[p].clean)
  BY MarkedWhole
<1> QED
  BY <1>1 DEF Whole, CleanAlone, Busy, Turning, Finishes, Done

LEMMA BegunWhole ==
  ASSUME Inv, Whole, NEW o \in Ops, ~Busy(o), NEW q, Fielded(q), NEW todo, op' = Begun(o, q, todo),
         q.source = None \/ q.from = q.to \/ OnCourse(q, todo)'
  PROVE  Whole' /\ \A p \in Ops : Finishes(p)
<1>1. \A p \in Ops \ {o} : op'[p].todo = op[p].todo /\ (Busy(p) => ~op'[p].clean)
  <2> SUFFICES ASSUME NEW p \in Ops \ {o}
               PROVE  op'[p].todo = op[p].todo /\ (Busy(p) => ~op'[p].clean)
    OBVIOUS
  <2>1. op'[p] = Touched(op)[p]
    BY DEF Begun, Touched
  <2> QED
    BY <2>1, MarkedWhole
<1>2. op[o].todo = << >>
  BY DEF Busy
<1>3. CASE todo = << >>
  <2>1. op'[o].todo = << >>
    <3>1. op'[o] = Idle
      BY <1>3 DEF Begun, Touched
    <3> QED
      BY <3>1, IdleFits
  <2> QED
    BY <1>1, <1>2, <2>1 DEF Whole, CleanAlone, Busy, Turning, Finishes, Done
<1>4. CASE todo # << >>
  <2>1. PICK alone, r : /\ alone = (\A p \in Ops : ~Busy(p)) /\ op'[o] = r
                       /\ r = [q EXCEPT !.todo = todo, !.clean = alone]
    BY <1>4 DEF Begun, Touched
  <2>2. /\ r.todo = todo /\ r.b = q.b /\ r.d = q.d /\ r.to = q.to /\ r.from = q.from
        /\ r.source = q.source /\ r.clean = alone
    BY <2>1 DEF Fielded
  <2>3. CleanAlone'
    <3>1. \A p \in Ops \ {o} : Busy(p)' => Busy(p) /\ ~op'[p].clean
      BY <1>1 DEF Busy
    <3>2. op'[o].clean => \A p \in Ops : ~Busy(p)
      BY <2>1, <2>2
    <3> QED
      BY <3>1, <3>2 DEF CleanAlone
  <2>4. Turning(op[o])' => OnCourse(op[o], op[o].todo)'
    <3> SUFFICES ASSUME Turning(op[o])'
                 PROVE  OnCourse(op[o], op[o].todo)'
      OBVIOUS
    <3>1. OnCourse(q, todo)'
      BY <2>1, <2>2 DEF Turning
    <3> QED
      BY <2>1, <2>2, <3>1 DEF OnCourse, Plan, Due, BookKept, JournalKept, ListKept, GrimmoryKept, MirrorKept
  <2>5. \A p \in Ops \ {o} : Busy(p)' => ~Turning(op[p])'
    BY <1>1 DEF Busy, Turning
  <2> QED
    BY <1>1, <1>2, <2>3, <2>4, <2>5 DEF Whole, Finishes, Done
<1> QED
  BY <1>3, <1>4

\* An operation at one of its steps.
LEMMA TurningAt ==
  ASSUME Inv, Whole, NEW o \in Ops, NEW step, At(o, step), Turning(op[o])
  PROVE  \E r \in Operation : \E s, rest :
           /\ r = op[o] /\ s = op[o].todo /\ rest = Rest(o)
           /\ s # << >> /\ s[1] = step /\ Program(s) /\ OnCourse(r, s) /\ step \in ChangeSteps
           /\ r.source = "local" => step \in CourseSteps
           /\ Once(rest) /\ Left(rest) = Left(s) \ {step} /\ step \in Left(s) /\ "save" \notin Left(rest)
           /\ rest # << >> /\ rest[1] = "cache" => step = "status"
<1>1. PICK r \in Operation, s \in {op[o].todo} : r = op[o] /\ s = op[o].todo
  BY OldShape
<1>2. s # << >> /\ s[1] = step /\ Program(s) /\ step \in Left(s) /\ Busy(o)
  BY <1>1, AtStep DEF Busy
<1>3. OnCourse(r, s)
  BY <1>1, <1>2 DEF Whole
<1>4. PICK rest : rest = Tail(s)
  OBVIOUS
<1>5. Once(rest) /\ Left(rest) = Left(s) \ {step}
  BY <1>2, <1>3, <1>4, OnceRest DEF OnCourse, Plan
<1>6. (rest # << >> /\ rest[1] = "cache" => step = "status") /\ "save" \notin Left(rest)
  <2>1. /\ "save" \notin Left(rest)
        /\ rest # << >> /\ rest[1] \in Follows => step \in Leads
        /\ step \in Leads => rest # << >> /\ rest[1] = After[step]
    BY <1>2, <1>4, RestFits
  <2> QED
    BY <2>1 DEF After, Leads, Pushes, Follows
<1>7. step \in ChangeSteps /\ (r.source = "local" => step \in CourseSteps)
  BY <1>2, <1>3 DEF OnCourse, Plan
<1>8. rest = Rest(o)
  BY <1>1, <1>4 DEF Rest
<1> QED
  BY <1>1, <1>2, <1>3, <1>5, <1>6, <1>7, <1>8

\* What a step does not touch stays done, and what it does not take stays to be done.
LEMMA StaysOnCourse ==
  ASSUME NEW r, NEW s, OnCourse(r, s), NEW q, q.to = r.to, q.source = r.source,
         NEW rest, NEW gone, Once(rest), Left(rest) \subseteq Left(s), Left(s) \subseteq Left(rest) \cup gone,
         q.source = "local" => (rest # << >> /\ rest[1] = "cache" => q.d = details'),
         Due(q, rest) => Due(r, s), faults' = 0 => faults = 0,
         (q.b = r.b /\ {"save", "dates"} \cap gone = {} /\ UNCHANGED book) \/ BookKept(q, rest)',
         ("journal" \notin gone /\ UNCHANGED journal) \/ JournalKept(q, rest)',
         ("unlist" \notin gone /\ UNCHANGED tbr) \/ ListKept(q, rest)',
         ({"grimmory", "finish"} \cap gone = {} /\ UNCHANGED grimmory) \/ GrimmoryKept(q, rest)',
         r.source = "local" => ("status" \notin gone /\ UNCHANGED <<details, remote>>) \/ MirrorKept(q, rest)'
  PROVE  OnCourse(q, rest)'
<1>1. Plan(q, rest)'
  BY DEF OnCourse, Plan
<1>2. BookKept(q, rest)'
  BY DEF OnCourse, BookKept, Due, Dated
<1>3. JournalKept(q, rest)'
  BY DEF OnCourse, JournalKept, Due
<1>4. ListKept(q, rest)'
  BY DEF OnCourse, ListKept, Due
<1>5. GrimmoryKept(q, rest)'
  BY DEF OnCourse, GrimmoryKept, Due
<1>6. MirrorKept(q, rest)'
  BY DEF OnCourse, MirrorKept, Due
<1> QED
  BY <1>1, <1>2, <1>3, <1>4, <1>5, <1>6 DEF OnCourse

Keeps(q, r) == q.clean = r.clean /\ q.source = r.source /\ q.from = r.from /\ q.to = r.to

LEMMA KeepsWhole ==
  ASSUME Inv, Whole, NEW o \in Ops, Busy(o), NEW q, Fielded(q), NEW rest, op' = Go(o, q, rest), Keeps(q, op[o]),
         Turning(op[o]) => OnCourse(q, rest)' /\ (op[o].b.status = op[o].to => q.b.status = q.to)
  PROVE  Whole' /\ \A p \in Ops : Finishes(p)
  BY OwnWhole DEF Keeps, Turning

\* A step that no change of status has.
LEMMA OutsideWhole ==
  ASSUME Inv, Whole, NEW o \in Ops, NEW step \in Steps \ ChangeSteps, At(o, step), NEW q, Fielded(q), NEW rest,
         op' = Go(o, q, rest), Keeps(q, op[o])
  PROVE  Whole' /\ \A p \in Ops : Finishes(p)
<1>1. ~Turning(op[o])
  BY TurningAt
<1>2. Busy(o)
  BY AtStep DEF Busy
<1> QED
  BY <1>1, <1>2, KeepsWhole

LEMMA OldFields ==
  ASSUME NEW r \in Operation
  PROVE  /\ Fielded(r) /\ Keeps(r, r)
         /\ \A b : LET q == [r EXCEPT !.b = b] IN Fielded(q) /\ Keeps(q, r) /\ q.b = b /\ q.d = r.d
         /\ \A d : LET q == [r EXCEPT !.d = d] IN Fielded(q) /\ Keeps(q, r) /\ q.b = r.b /\ q.d = d
  BY DEF Operation, Fielded, Keeps

\* The steps of the course.
LEMMA SaveWhole ==
  ASSUME Inv, Whole, NEW o \in Ops, Save(o)
  PROVE  Whole' /\ \A p \in Ops : Finishes(p)
<1>1. /\ At(o, "save") /\ book' = [op[o].b EXCEPT !.status = op[o].to]
      /\ Reads(o, [op[o] EXCEPT !.b = [op[o].b EXCEPT !.status = op[o].to]])
      /\ UNCHANGED <<journal, tbr, details, remote, grimmory, faults>>
  BY DEF Save, mirror
<1>2. PICK r \in Operation, rest \in {Rest(o)} : r = op[o] /\ rest = Rest(o)
  BY OldShape
<1>3. PICK b, q : b = [r.b EXCEPT !.status = r.to] /\ q = [r EXCEPT !.b = b]
  OBVIOUS
<1>4. Fielded(q) /\ Keeps(q, r) /\ q.b = b /\ b.status = r.to /\ q.d = r.d
  BY <1>2, <1>3, OldFields DEF Operation, Book
<1>5. op' = Go(o, q, rest) /\ book' = b /\ Busy(o)
  BY <1>1, <1>2, <1>3, AtStep DEF Reads, Busy
<1>6. ASSUME Turning(r)
      PROVE  OnCourse(q, rest)'
  <2>1. PICK s : /\ OnCourse(r, s) /\ Once(rest) /\ Left(rest) = Left(s) \ {"save"} /\ "save" \in Left(s)
                 /\ "save" \notin Left(rest) /\ ~(rest # << >> /\ rest[1] = "cache")
    BY <1>1, <1>2, <1>6, TurningAt
  <2>2. "dates" \in Left(rest)
    BY <2>1 DEF OnCourse, BookKept
  <2>3. BookKept(q, rest)'
    BY <1>4, <1>5, <2>1, <2>2 DEF BookKept, Keeps
  <2> QED
    BY <1>1, <1>4, <2>1, <2>3, StaysOnCourse DEF Keeps, Due
<1> QED
  BY <1>2, <1>4, <1>5, <1>6, KeepsWhole DEF Keeps

\* A step that goes on with the operation as it was.
LEMMA PlainWhole ==
  ASSUME Inv, Whole, NEW o \in Ops, NEW step, At(o, step), Reads(o, op[o]), faults' = 0 => faults = 0,
         UNCHANGED <<details, remote>>, step \notin {"save", "status"},
         \A r \in Operation : \A s, rest :
           (/\ r = op[o] /\ OnCourse(r, s) /\ "save" \notin Left(rest)
            /\ Left(rest) = Left(s) \ {step} /\ step \in Left(s))
           => /\ (step # "dates" /\ UNCHANGED book) \/ BookKept(r, rest)'
              /\ (step # "journal" /\ UNCHANGED journal) \/ JournalKept(r, rest)'
              /\ (step # "unlist" /\ UNCHANGED tbr) \/ ListKept(r, rest)'
              /\ (step \notin {"grimmory", "finish"} /\ UNCHANGED grimmory) \/ GrimmoryKept(r, rest)'
  PROVE  Whole' /\ \A p \in Ops : Finishes(p)
<1>1. PICK r \in Operation, rest \in {Rest(o)} : r = op[o] /\ rest = Rest(o)
  BY OldShape
<1>2. op' = Go(o, r, rest) /\ Busy(o)
  BY <1>1, AtStep DEF Reads, Busy
<1>3. ASSUME Turning(r)
      PROVE  OnCourse(r, rest)'
  <2>1. PICK s : /\ OnCourse(r, s) /\ Once(rest) /\ Left(rest) = Left(s) \ {step} /\ step \in Left(s)
                 /\ "save" \notin Left(rest) /\ ~(rest # << >> /\ rest[1] = "cache")
    BY <1>1, <1>3, TurningAt
  <2>2. /\ (step # "dates" /\ UNCHANGED book) \/ BookKept(r, rest)'
        /\ (step # "journal" /\ UNCHANGED journal) \/ JournalKept(r, rest)'
        /\ (step # "unlist" /\ UNCHANGED tbr) \/ ListKept(r, rest)'
        /\ (step \notin {"grimmory", "finish"} /\ UNCHANGED grimmory) \/ GrimmoryKept(r, rest)'
    <3>1. r = op[o] /\ OnCourse(r, s) /\ "save" \notin Left(rest) /\ Left(rest) = Left(s) \ {step} /\ step \in Left(s)
      BY <1>1, <2>1
    <3>2. r \in Operation
      BY <1>1
    <3> QED
      BY <3>1, <3>2, Zenon
  <2>3. Due(r, rest) => Due(r, s)
    BY <2>1 DEF Due
  <2>4. PICK gone : gone = {step}
    OBVIOUS
  <2>5. /\ Left(rest) \subseteq Left(s) /\ Left(s) \subseteq Left(rest) \cup gone
        /\ {"save", "dates"} \cap gone = {} \/ step = "dates"
        /\ "journal" \notin gone \/ step = "journal"
        /\ "unlist" \notin gone \/ step = "unlist"
        /\ {"grimmory", "finish"} \cap gone = {} \/ step \in {"grimmory", "finish"}
        /\ "status" \notin gone
    BY <2>1, <2>4
  <2>6. /\ (r.b = r.b /\ {"save", "dates"} \cap gone = {} /\ UNCHANGED book) \/ BookKept(r, rest)'
        /\ ("journal" \notin gone /\ UNCHANGED journal) \/ JournalKept(r, rest)'
        /\ ("unlist" \notin gone /\ UNCHANGED tbr) \/ ListKept(r, rest)'
        /\ ({"grimmory", "finish"} \cap gone = {} /\ UNCHANGED grimmory) \/ GrimmoryKept(r, rest)'
        /\ "status" \notin gone /\ UNCHANGED <<details, remote>>
    BY <2>2, <2>5
  <2> QED
    BY <2>1, <2>3, <2>5, <2>6, StaysOnCourse
<1> QED
  BY <1>1, <1>2, <1>3, OldFields, KeepsWhole DEF Keeps, Turning

LEMMA JournalWhole ==
  ASSUME Inv, Whole, NEW o \in Ops, Journal(o)
  PROVE  Whole' /\ \A p \in Ops : Finishes(p)
<1>1. /\ At(o, "journal") /\ journal' = Journalled(op[o]) /\ Reads(o, op[o])
      /\ UNCHANGED <<book, tbr, details, remote, grimmory, faults>>
  BY DEF Journal, mirror, history
<1>2. op[o].to = "completed" => journal'.finished > 0
  <2>1. journal.finished \in Nat
    BY DEF Inv, TypeOK
  <2> QED
    BY <1>1, <2>1 DEF Journalled
<1>3. \A r : r = op[o] => \A rest : JournalKept(r, rest)'
  BY <1>2 DEF JournalKept
<1> QED
  BY <1>1, <1>3, PlainWhole

LEMMA DatesWhole ==
  ASSUME Inv, Whole, NEW o \in Ops, FillDates(o)
  PROVE  Whole' /\ \A p \in Ops : Finishes(p)
<1>1. /\ At(o, "dates") /\ book' = Filled(book, op[o].b, op[o].to) /\ Reads(o, op[o])
      /\ UNCHANGED <<journal, tbr, details, remote, grimmory, faults>>
  BY DEF FillDates, mirror, history
<1>2. ASSUME NEW r \in Operation, NEW s, NEW rest, r = op[o], OnCourse(r, s), "save" \notin Left(rest),
             Left(rest) = Left(s) \ {"dates"}, "dates" \in Left(s)
      PROVE  BookKept(r, rest)'
  <2> SUFFICES ASSUME r.b.status = r.to
               PROVE  book'.status = r.to /\ Dated(r.to)'
    BY <1>2 DEF BookKept, Due
  <2>1. "save" \notin Left(s)
    BY <1>2
  <2>2. PICK b \in Book : b = book /\ b = r.b /\ b.status = r.to
    BY <1>2, <2>1 DEF OnCourse, BookKept, Operation
  <2>3. book' = Filled(b, b, r.to)
    BY <1>1, <1>2, <2>2
  <2>4. Day # None
    BY TrackerAssumption
  <2>5. CASE r.to = "active"
    <3>1. book' = IF b.started = None THEN [b EXCEPT !.started = Day] ELSE b
      BY <2>3, <2>5 DEF Filled
    <3> QED
      BY <2>2, <2>4, <2>5, <3>1 DEF Dated, Book
  <2>6. CASE r.to = "completed"
    <3>1. CASE b.finished = None
      <4>1. book' = [b EXCEPT !.finished = Day, !.started = IF b.started = None THEN Day ELSE @]
        BY <2>3, <2>6, <3>1 DEF Filled
      <4> QED
        BY <2>2, <2>4, <2>6, <4>1 DEF Dated, Book
    <3>2. CASE b.finished # None
      <4>1. book' = [b EXCEPT !.count = b.count + 1]
        BY <2>3, <2>6, <3>2 DEF Filled
      <4> QED
        BY <2>2, <2>6, <3>2, <4>1 DEF Dated, Book
    <3> QED
      BY <3>1, <3>2
  <2>7. CASE r.to \notin {"active", "completed"}
    BY <2>2, <2>3, <2>7 DEF Filled, Dated
  <2> QED
    BY <2>5, <2>6, <2>7
<1> QED
  BY <1>1, <1>2, PlainWhole

LEMMA UnlistWhole ==
  ASSUME Inv, Whole, NEW o \in Ops, Unlist(o)
  PROVE  Whole' /\ \A p \in Ops : Finishes(p)
<1>1. /\ At(o, "unlist") /\ tbr' = Cleaned(tbr, details.hc) /\ Reads(o, op[o])
      /\ UNCHANGED <<book, journal, details, remote, grimmory, faults>>
  BY DEF Unlist, mirror, local
<1> DEFINE linked == {i \in Items : tbr[i].linked}
<1>2. \A i \in ItemIds : tbr'[i] = None \/ ~tbr'[i].linked
  <2> SUFFICES ASSUME NEW i \in ItemIds
               PROVE  tbr'[i] = None \/ ~tbr'[i].linked
    OBVIOUS
  <2>1. CASE linked # {}
    <3>1. tbr' = [j \in ItemIds |-> IF j \in linked THEN None ELSE tbr[j]]
      BY <1>1, <2>1 DEF Cleaned
    <3> QED
      BY <3>1 DEF Items
  <2>2. CASE linked = {}
    <3>1. tbr[i] = None \/ ~tbr[i].linked
      BY <2>2 DEF Items
    <3>2. tbr'[i] = None \/ tbr'[i] = tbr[i]
      <4>1. tbr \in [ItemIds -> Item \cup {None}]
        BY DEF Inv, TypeOK
      <4>2. tbr' = tbr \/ \E k : tbr' = [tbr EXCEPT ![k] = None]
        BY <1>1, <2>2 DEF Cleaned
      <4> QED
        BY <4>1, <4>2
    <3> QED
      BY <3>1, <3>2
  <2> QED
    BY <2>1, <2>2
<1>3. \A r, rest : ListKept(r, rest)'
  BY <1>2 DEF ListKept
<1> QED
  BY <1>1, <1>3, PlainWhole

LEMMA GrimmoryWhole ==
  ASSUME Inv, Whole, NEW o \in Ops, TellGrimmory(o) \/ Finish(o)
  PROVE  Whole' /\ \A p \in Ops : Finishes(p)
<1>1. PICK step \in {"grimmory", "finish"}, answer \in {"done", "refused"} :
        /\ At(o, step) /\ Reads(o, op[o]) /\ Call(answer)
        /\ Took(answer) /\ op[o].to = "completed" => grimmory' = "READ"
        /\ UNCHANGED <<book, journal, tbr, details, remote>>
  <2>1. CASE TellGrimmory(o)
    BY <2>1 DEF TellGrimmory, GrimmoryStatus, mirror, local
  <2>2. CASE Finish(o)
    BY <2>2 DEF Finish, mirror, local
  <2> QED
    BY <2>1, <2>2
<1>2. faults' = 0 => faults = 0 /\ answer = "done"
  BY <1>1, CalmCall
<1>3. \A r : r = op[o] => \A rest : GrimmoryKept(r, rest)'
  BY <1>1, <1>2 DEF GrimmoryKept, Took
<1> QED
  BY <1>1, <1>2, <1>3, PlainWhole

LEMMA MarksWhole ==
  ASSUME Inv, Whole, NEW o \in Ops, StoreManual(o) \/ Mark(o)
  PROVE  Whole' /\ \A p \in Ops : Finishes(p)
<1>1. PICK step \in {"set", "mark"} :
        At(o, step) /\ Reads(o, op[o]) /\ UNCHANGED <<book, journal, tbr, details, remote, grimmory, faults>>
  BY DEF StoreManual, Mark, mirror, history
<1> QED
  BY <1>1, PlainWhole

LEMMA CacheWhole ==
  ASSUME Inv, Whole, NEW o \in Ops, CacheStatus(o)
  PROVE  Whole' /\ \A p \in Ops : Finishes(p)
<1>1. /\ At(o, "cache") /\ details' = [op[o].d EXCEPT !.status = LocalToHc[op[o].to]] /\ Reads(o, op[o])
      /\ UNCHANGED <<book, journal, tbr, remote, grimmory, faults>>
  BY DEF CacheStatus, SavedDetails, local
<1>2. PICK r \in Operation, rest \in {Rest(o)} : r = op[o] /\ rest = Rest(o)
  BY OldShape
<1>3. op' = Go(o, r, rest) /\ Busy(o)
  BY <1>1, <1>2, AtStep DEF Reads, Busy
<1>4. ASSUME Turning(r)
      PROVE  OnCourse(r, rest)'
  <2>1. PICK s : /\ OnCourse(r, s) /\ Once(rest) /\ Left(rest) = Left(s) \ {"cache"} /\ "save" \notin Left(rest)
                 /\ ~(rest # << >> /\ rest[1] = "cache") /\ s # << >> /\ s[1] = "cache"
    BY <1>1, <1>2, <1>4, TurningAt
  <2>2. Due(r, rest) => Due(r, s)
    BY <2>1 DEF Due
  <2>3. r.source = "local" => MirrorKept(r, rest)'
    <3> SUFFICES ASSUME r.source = "local"
                 PROVE  MirrorKept(r, rest)'
      OBVIOUS
    <3>1. PICK d \in Details : d = details /\ d = r.d
      BY <2>1 DEF OnCourse, MirrorKept, Operation
    <3>2. details'.hc = details.hc
      BY <1>1, <1>2, <3>1 DEF Details
    <3> QED
      BY <1>1, <2>1, <2>2, <3>2 DEF OnCourse, MirrorKept, Due
  <2> QED
    BY <1>1, <2>1, <2>2, <2>3, StaysOnCourse
<1> QED
  BY <1>2, <1>3, <1>4, OldFields, KeepsWhole DEF Keeps, Turning

LEMMA TellWhole ==
  ASSUME Inv, Whole, NEW o \in Ops, TellStatus(o)
  PROVE  Whole' /\ \A p \in Ops : Finishes(p)
<1>1. /\ At(o, "status") /\ UNCHANGED <<book, journal, tbr, details, grimmory>>
      /\ \/ details.hc = None /\ op' = Go(o, op[o], Tail(Rest(o))) /\ UNCHANGED <<remote, faults>>
         \/ /\ details.hc # None /\ Reads(o, [op[o] EXCEPT !.d = details])
            /\ \E answer \in Answers :
                 Call(answer) /\ remote' = Told(remote, details.hc, LocalToHc[op[o].to], answer)
  BY DEF TellStatus, local
<1>2. PICK r \in Operation, rest \in {Rest(o)} : r = op[o] /\ rest = Rest(o)
  BY OldShape
<1>3. Busy(o)
  BY <1>1, AtStep DEF Busy
<1>4. CASE details.hc = None
  <2>1. op' = Go(o, r, Tail(rest)) /\ UNCHANGED <<remote, faults>>
    BY <1>1, <1>2, <1>4
  <2>2. PICK after : after = Tail(rest)
    OBVIOUS
  <2>3. ASSUME Turning(r)
        PROVE  OnCourse(r, after)'
    <3>1. PICK s : /\ OnCourse(r, s) /\ Once(rest) /\ Left(rest) = Left(s) \ {"status"} /\ "save" \notin Left(rest)
                   /\ Program(s) /\ s # << >> /\ s[1] = "status" /\ s = op[o].todo
      BY <1>1, <1>2, <2>3, TurningAt
    <3>2. rest = Tail(s)
      BY <1>2, <3>1 DEF Rest
    <3>3. Program(rest) /\ rest # << >> /\ rest[1] = "cache"
      BY <3>1, <3>2, RestFits DEF Leads, After
    <3>4. Once(after) /\ Left(after) = Left(rest) \ {"cache"} /\ Program(after)
      BY <2>2, <3>1, <3>3, OnceRest, RestFits
    <3>5. ~(after # << >> /\ after[1] = "cache")
      <4>1. after # << >> => after[1] \in Left(after)
        BY <3>4, RestFits
      <4> QED
        BY <3>4, <4>1
    <3>6. Due(r, after) => Due(r, s)
      BY <3>1, <3>4 DEF Due
    <3>7. MirrorKept(r, after)'
      BY <1>1, <1>4, <3>5 DEF MirrorKept
    <3> DEFINE gone == {"status", "cache"}
    <3>8. Left(after) \subseteq Left(s) /\ Left(s) \subseteq Left(after) \cup gone
      BY <3>1, <3>4
    <3>9. /\ {"save", "dates"} \cap gone = {} /\ "journal" \notin gone /\ "unlist" \notin gone
          /\ {"grimmory", "finish"} \cap gone = {}
      OBVIOUS
    <3> HIDE DEF gone
    <3>10. UNCHANGED <<book, journal, tbr, grimmory, faults>> /\ OnCourse(r, s)
      BY <1>1, <2>1, <3>1
    <3> QED
      BY <3>10, <3>4, <3>5, <3>6, <3>7, <3>8, <3>9, StaysOnCourse
  <2> QED
    BY <1>2, <1>3, <2>1, <2>2, <2>3, OldFields, KeepsWhole DEF Keeps, Turning
<1>5. CASE details.hc # None
  <2>1. PICK answer \in Answers : /\ Call(answer) /\ remote' = Told(remote, details.hc, LocalToHc[r.to], answer)
                                 /\ Reads(o, [r EXCEPT !.d = details])
    BY <1>1, <1>2, <1>5
  <2>2. PICK q, d : q = [r EXCEPT !.d = d] /\ d = details
    OBVIOUS
  <2>3. Fielded(q) /\ Keeps(q, r) /\ q.b = r.b /\ q.d = details'
    BY <1>1, <2>2, OldFields
  <2>4. op' = Go(o, q, rest)
    BY <1>2, <2>1, <2>2 DEF Reads
  <2>5. details.hc \in HcBooks
    BY <1>5 DEF Inv, TypeOK, Details
  <2>6. faults' = 0 => faults = 0 /\ answer = "done"
    BY <2>1, CalmCall
  <2>7. faults' # 0 \/ remote'[details.hc].status = LocalToHc[r.to]
    BY <2>1, <2>5, <2>6, ToldStatus DEF Took
  <2>8. ASSUME Turning(r)
        PROVE  OnCourse(q, rest)'
    <3>1. PICK s : OnCourse(r, s) /\ Once(rest) /\ Left(rest) = Left(s) \ {"status"}
      BY <1>1, <1>2, <2>8, TurningAt
    <3>2. Due(q, rest) => Due(r, s)
      BY <2>3, <3>1 DEF Due, Keeps
    <3>3. MirrorKept(q, rest)'
      BY <1>1, <2>3, <2>7 DEF MirrorKept, Keeps
    <3> QED
      BY <1>1, <2>3, <2>6, <3>1, <3>2, <3>3, StaysOnCourse DEF Keeps
  <2> QED
    BY <1>2, <1>3, <2>3, <2>4, <2>8, KeepsWhole DEF Keeps, Turning
<1> QED
  BY <1>4, <1>5

\* A push in a change of status, which is no change of the user's.
PushRun == {"push"} \cup PushSteps
LEMMA PushingWhole ==
  ASSUME Inv, Whole, NEW o \in Ops, NEW step \in PushRun, At(o, step),
         UNCHANGED <<book, journal, tbr, grimmory>>, faults' = 0 => faults = 0,
         \/ \E d : Reads(o, [op[o] EXCEPT !.d = d])
         \/ Reads(o, op[o]) \/ GivesUp(o) \/ op' = Go(o, op[o], AfterPush(o))
  PROVE  Whole' /\ \A p \in Ops : Finishes(p)
<1>1. PICK r \in Operation, s \in {op[o].todo}, rest \in {Rest(o)} :
        r = op[o] /\ s = op[o].todo /\ rest = Rest(o)
  BY OldShape
<1>2. Busy(o) /\ Program(s) /\ s # << >> /\ s[1] = step
  BY <1>1, AtStep DEF Busy
<1>3. ASSUME NEW q, Fielded(q), Keeps(q, r), q.b = r.b, NEW after, op' = Go(o, q, after),
             Turning(r) /\ OnCourse(r, s) => /\ Once(after) /\ Left(after) \subseteq Left(s)
                                             /\ Left(s) \subseteq Left(after) \cup PushRun
      PROVE  Whole' /\ \A p \in Ops : Finishes(p)
  <2>1. ASSUME Turning(r)
        PROVE  OnCourse(q, after)'
    <3>1. OnCourse(r, s) /\ r.source # "local"
      <4>1. OnCourse(r, s) /\ (r.source = "local" => step \in CourseSteps)
        BY <1>1, <2>1, TurningAt
      <4> QED
        BY <4>1 DEF PushRun, PushSteps, CourseSteps
    <3>2. Once(after) /\ Left(after) \subseteq Left(s) /\ Left(s) \subseteq Left(after) \cup PushRun
      BY <1>3, <2>1, <3>1
    <3>3. {"save", "dates", "journal", "unlist", "grimmory", "finish"} \cap PushRun = {}
      BY DEF PushRun, PushSteps
    <3>4. Due(q, after) => Due(r, s)
      BY <1>3, <3>2 DEF Due, Keeps
    <3> QED
      BY <1>3, <3>1, <3>2, <3>3, <3>4, StaysOnCourse DEF Keeps
  <2> QED
    BY <1>1, <1>2, <1>3, <2>1, KeepsWhole DEF Keeps, Turning
<1>4. ASSUME NEW q, Fielded(q), Keeps(q, r), q.b = r.b, op' = Go(o, q, rest)
      PROVE  Whole' /\ \A p \in Ops : Finishes(p)
  <2>1. Turning(r) => Once(rest) /\ Left(rest) = Left(s) \ {step}
    BY <1>1, TurningAt
  <2> QED
    BY <1>3, <1>4, <2>1
<1>5. CASE \/ \E d : Reads(o, [op[o] EXCEPT !.d = d])
           \/ Reads(o, op[o])
  <2>1. CASE Reads(o, op[o])
    BY <1>1, <1>4, <2>1, OldFields DEF Reads
  <2>2. ASSUME NEW d, Reads(o, [op[o] EXCEPT !.d = d])
        PROVE  Whole' /\ \A p \in Ops : Finishes(p)
    <3>1. PICK q : q = [r EXCEPT !.d = d]
      OBVIOUS
    <3>2. Fielded(q) /\ Keeps(q, r) /\ q.b = r.b
      BY <3>1, OldFields
    <3>3. op' = Go(o, q, rest)
      BY <1>1, <2>2, <3>1 DEF Reads
    <3> QED
      BY <1>4, <3>2, <3>3
  <2> QED
    BY <1>5, <2>1, <2>2
<1>6. CASE GivesUp(o) \/ op' = Go(o, op[o], AfterPush(o))
  <2>1. PICK k \in 1 .. Len(s), after \in {AfterPush(o)} :
          s[k] = "send" /\ after = AfterPush(o) /\ after = SubSeq(s, k + 1, Len(s))
    <3>1. \E k \in 1 .. Len(s) : s[k] = "send"
      BY <1>2, PushGoesOn DEF PushRun, PushSteps, Pushes
    <3>2. DOMAIN s = 1 .. Len(s)
      BY <1>2 DEF Program
    <3> QED
      BY <1>1, <3>1, <3>2 DEF AfterPush
  <2>2. Once(s) => /\ Once(after) /\ Left(after) \subseteq Left(s)
                   /\ Left(s) \subseteq Left(after) \cup PushRun
    <3>1. step \in (Pushes \ {"initial"}) \cup {"send"}
      BY DEF PushRun, PushSteps, Pushes
    <3> QED
      BY <1>2, <2>1, <3>1, OnceAfter DEF PushRun
  <2>3. Program(after)
    BY <1>2, <2>1, AfterSend
  <2>4. CASE op' = Go(o, r, after)
    BY <1>3, <2>2, <2>4, OldFields DEF OnCourse, Plan
  <2>5. CASE op' # Go(o, r, after)
    <3>1. after # << >> /\ Head(after) = "record" /\ op' = Go(o, r, Tail(after))
      BY <1>1, <1>6, <2>1, <2>5 DEF GivesUp
    <3>2. "record" \in Left(after)
      BY <2>3, <3>1, RestFits
    <3>3. ~(Turning(r) /\ OnCourse(r, s))
      <4>1. "record" \notin ChangeSteps
        BY DEF ChangeSteps, CourseSteps, PushSteps
      <4> QED
        BY <2>2, <3>2, <4>1 DEF OnCourse, Plan
    <3> QED
      BY <1>3, <3>1, <3>3, OldFields
  <2> QED
    BY <2>4, <2>5
<1> QED
  BY <1>5, <1>6

LEMMA PushesWhole ==
  ASSUME Inv, Whole, NEW o \in Ops,
         Push(o) \/ Adopt(o) \/ (Editions(o) /\ At(o, "resolve")) \/ Advance(o) \/ Send(o)
  PROVE  Whole' /\ \A p \in Ops : Finishes(p)
<1>1. {"push", "adopt", "resolve", "advance", "send"} \subseteq PushRun
  BY DEF PushRun, PushSteps
<1>2. (UNCHANGED faults \/ \E answer : Call(answer)) => (faults' = 0 => faults = 0)
  BY CalmCall
<1>3. CASE Push(o)
  BY <1>1, <1>2, <1>3, PushingWhole DEF Push, mirror, local
<1>4. CASE Adopt(o)
  BY <1>1, <1>2, <1>4, PushingWhole DEF Adopt, local
<1>5. CASE Editions(o) /\ At(o, "resolve")
  BY <1>1, <1>2, <1>5, PushingWhole DEF Editions, local
<1>6. CASE Advance(o)
  <2>1. PICK r \in Operation : r = op[o]
    BY OldShape
  <2>2. \A status : [r EXCEPT !.d.status = status] = [r EXCEPT !.d = [r.d EXCEPT !.status = status]]
    BY DEF Operation
  <2>3. Reads(o, op[o]) \/ \E d : Reads(o, [op[o] EXCEPT !.d = d])
    BY <1>6, <2>1, <2>2 DEF Advance
  <2>4. /\ At(o, "advance") /\ UNCHANGED <<book, journal, tbr, grimmory>>
        /\ UNCHANGED faults \/ \E answer : Call(answer)
    BY <1>6 DEF Advance, local
  <2> QED
    BY <1>1, <1>2, <2>3, <2>4, PushingWhole
<1>7. CASE Send(o)
  <2>1. PICK r \in Operation : r = op[o]
    BY OldShape
  <2>2. \A n : [r EXCEPT !.d.read = n] = [r EXCEPT !.d = [r.d EXCEPT !.read = n]]
    BY DEF Operation
  <2>3. GivesUp(o) \/ \E d : Reads(o, [op[o] EXCEPT !.d = d])
    BY <1>7, <2>1, <2>2 DEF Send
  <2>4. At(o, "send") /\ UNCHANGED <<book, journal, tbr, grimmory>> /\ \E answer : Call(answer)
    BY <1>7 DEF Send, local
  <2> QED
    BY <1>1, <1>2, <2>3, <2>4, PushingWhole
<1> QED
  BY <1>3, <1>4, <1>5, <1>6, <1>7

\* What a course that is about to begin has before it.
LEMMA CourseWhole ==
  ASSUME NEW from \in Statuses, NEW to \in Statuses, NEW source \in DOMAIN Effects, from # to
  PROVE  LET c == Course(from, to, source) IN
         /\ Program(c) /\ Once(c) /\ Left(c) \subseteq CourseSteps /\ c # << >> /\ c[1] = "save"
         /\ "save" \in Left(c) /\ "dates" \in Left(c)
         /\ source # "manual_progress" => "journal" \in Left(c) /\ (to \in Reading => "unlist" \in Left(c))
         /\ source \in {"local", "completion_sync"} => "grimmory" \in Left(c)
         /\ source = "local" => "status" \in Left(c)
<1> DEFINE e == Effects[source]
           j == If("journal" \in e, <<"journal">>)
           h == If("hardcover" \in e, <<"status", "cache">>)
           u == If("tbr" \in e /\ to \in Reading, <<"unlist">>)
           g == If("grimmory" \in e, <<"grimmory">>)
           one == <<"save">> \o j
           two == one \o <<"dates">>
           three == two \o h
           four == three \o u
           five == four \o g
<1>1. Course(from, to, source) = five
  BY DEF Course
<1>2. ASSUME NEW step \in {"save", "journal", "dates", "unlist", "grimmory"}
      PROVE  Program(<<step>>) /\ Left(<<step>>) = {step} /\ Once(<<step>>) /\ <<step>> # << >> /\ <<step>>[1] = step
             /\ (step # "save" => Block(<<step>>))
  BY <1>2, OneStep, Known DEF Once
<1>3. Block(<< >>) /\ Left(<< >>) = {} /\ Once(<< >>)
  BY NoSteps DEF Once
<1>4. Once(<<"status", "cache">>)
  <2> DEFINE s == <<"status", "cache">>
  <2>1. Len(s) = 2 /\ s[1] # s[2] /\ \A k \in 1 .. 2 : k = 1 \/ k = 2
    OBVIOUS
  <2> HIDE DEF s
  <2> QED
    BY <2>1 DEF Once, s
<1>5. Block(j) /\ Once(j) /\ Left(j) = IF "journal" \in e THEN {"journal"} ELSE {}
  BY <1>2, <1>3 DEF If
<1>6. Block(h) /\ Once(h) /\ Left(h) = IF "hardcover" \in e THEN {"status", "cache"} ELSE {}
  BY <1>3, <1>4, StatusFits DEF If
<1>7. Block(u) /\ Once(u) /\ Left(u) = IF "tbr" \in e /\ to \in Reading THEN {"unlist"} ELSE {}
  BY <1>2, <1>3 DEF If
<1>8. Block(g) /\ Once(g) /\ Left(g) = IF "grimmory" \in e THEN {"grimmory"} ELSE {}
  BY <1>2, <1>3 DEF If
<1> HIDE DEF j, h, u, g
<1>9. /\ Program(one) /\ Once(one) /\ Left(one) = {"save"} \cup Left(j) /\ one # << >> /\ one[1] = "save"
  BY <1>2, <1>5, Joined, OnceJoined DEF Block
<1> HIDE DEF one
<1>10. /\ Program(two) /\ Once(two) /\ Left(two) = Left(one) \cup {"dates"} /\ two # << >> /\ two[1] = "save"
  BY <1>2, <1>5, <1>9, Joined, OnceJoined
<1> HIDE DEF two
<1>11. /\ Program(three) /\ Once(three) /\ Left(three) = Left(two) \cup Left(h) /\ three # << >> /\ three[1] = "save"
  BY <1>5, <1>6, <1>9, <1>10, Joined, OnceJoined DEF Block
<1> HIDE DEF three
<1>12. /\ Program(four) /\ Once(four) /\ Left(four) = Left(three) \cup Left(u) /\ four # << >> /\ four[1] = "save"
  BY <1>5, <1>6, <1>7, <1>9, <1>10, <1>11, Joined, OnceJoined DEF Block
<1> HIDE DEF four
<1>13. /\ Program(five) /\ Once(five) /\ Left(five) = Left(four) \cup Left(g) /\ five # << >> /\ five[1] = "save"
  BY <1>5, <1>6, <1>7, <1>8, <1>9, <1>10, <1>11, <1>12, Joined, OnceJoined DEF Block
<1> HIDE DEF five
<1>14. /\ source = "local" => e = {"journal", "hardcover", "tbr", "grimmory"}
       /\ source = "auto_complete" => e = {"journal", "hardcover", "tbr"}
       /\ source = "completion_sync" => e = {"journal", "tbr", "grimmory"}
       /\ source \in {"local", "auto_complete", "completion_sync", "manual_progress"}
  BY DEF Effects
<1> HIDE DEF e
<1>15. Left(five) = {"save", "dates"} \cup Left(j) \cup Left(h) \cup Left(u) \cup Left(g)
  BY <1>9, <1>10, <1>11, <1>12, <1>13
<1>16. Left(five) \subseteq CourseSteps
  BY <1>5, <1>6, <1>7, <1>8, <1>15 DEF CourseSteps
<1> QED
  BY <1>1, <1>5, <1>6, <1>7, <1>8, <1>13, <1>14, <1>15, <1>16

LEMMA FreshOnCourse ==
  ASSUME NEW q, NEW s, Plan(q, s), q.b.status = q.from, q.from # q.to, s # << >> => s[1] # "cache",
         "save" \in Left(s)
         => /\ "dates" \in Left(s)
            /\ q.source # "manual_progress"
               => "journal" \in Left(s) /\ (q.to \in Reading => "unlist" \in Left(s))
                  /\ ("grimmory" \in Left(s) \/ "finish" \in Left(s))
            /\ q.source = "local" => "status" \in Left(s)
  PROVE  OnCourse(q, s)'
<1>1. Due(q, s) <=> "save" \in Left(s)
  BY DEF Due
<1>2. q.b.status # q.to
  OBVIOUS
<1>3. BookKept(q, s)'
  BY <1>1, <1>2 DEF BookKept, Due
<1>4. JournalKept(q, s)'
  BY <1>1, <1>2 DEF JournalKept, Due, Plan
<1>5. ListKept(q, s)'
  BY <1>1, <1>2 DEF ListKept, Due
<1>6. GrimmoryKept(q, s)'
  BY <1>1, <1>2 DEF GrimmoryKept, Due
<1>7. MirrorKept(q, s)'
  BY <1>1, <1>2 DEF MirrorKept, Due
<1>8. Plan(q, s)'
  BY DEF Plan
<1> QED
  BY <1>3, <1>4, <1>5, <1>6, <1>7, <1>8 DEF OnCourse

LEMMA NoCourse ==
  Program(<< >>) /\ Once(<< >>) /\ Left(<< >>) = {}
  BY NoSteps DEF Block, Once

LEMMA PushOnce ==
  Once(PushCourse)
<1>1. /\ Len(PushCourse) = 5 /\ PushCourse[1] = "push" /\ PushCourse[2] = "adopt" /\ PushCourse[3] = "resolve"
      /\ PushCourse[4] = "advance" /\ PushCourse[5] = "send"
  BY DEF PushCourse
<1>2. \A k \in 1 .. 5 : k = 1 \/ k = 2 \/ k = 3 \/ k = 4 \/ k = 5
  OBVIOUS
<1> QED
  BY <1>1, <1>2 DEF Once

\* The push and the mark of the auto-completion.
LEMMA FinishOnce ==
  LET p == PushCourse \o <<"mark", "finish">> IN
  Block(p) /\ Once(p) /\ Left(p) = {"push", "mark", "finish"} \cup PushSteps
<1> DEFINE t == <<"mark", "finish">>
<1>1. Block(t) /\ Left(t) = {"mark", "finish"} /\ Once(t)
  <2>1. Block(t) /\ Left(t) = {"mark", "finish"}
    BY TwoSteps
  <2>2. Len(t) = 2 /\ t[1] # t[2] /\ \A k \in 1 .. 2 : k = 1 \/ k = 2
    OBVIOUS
  <2> HIDE DEF t
  <2> QED
    BY <2>1, <2>2 DEF Once
<1> HIDE DEF t
<1>2. Block(PushCourse \o t) /\ Left(PushCourse \o t) = {"push"} \cup PushSteps \cup Left(t)
  BY <1>1, PushThen
<1>3. Left(PushCourse) \cap Left(t) = {}
  BY <1>1, PushFits DEF PushSteps
<1>4. Once(PushCourse \o t)
  BY <1>1, <1>3, PushFits, PushOnce, OnceJoined DEF Block
<1> QED
  BY <1>1, <1>2, <1>4 DEF t

\* A change of status that what was looked at starts.
LEMMA TurnWhole ==
  ASSUME Inv, Whole, NEW o \in Ops, NEW step \in Steps \ ChangeSteps, At(o, step),
         NEW to \in {"active", "completed"}, NEW source \in DOMAIN Effects, NEW todo,
         op' = Go(o, Turn(op[o], to, source), todo),
         Program(todo) /\ Once(todo) /\ Left(todo) \subseteq ChangeSteps, todo # << >> => todo[1] # "cache",
         source \in {"completion_sync", "auto_complete"},
         op[o].b.status # to /\ "save" \in Left(todo)
         => {"dates", "journal", "unlist"} \subseteq Left(todo) /\ ("grimmory" \in Left(todo) \/ "finish" \in Left(todo))
  PROVE  Whole' /\ \A p \in Ops : Finishes(p)
<1>1. PICK r \in Operation, q \in {Turn(op[o], to, source)} : r = op[o] /\ q = Turn(r, to, source)
  BY OldShape
<1>2. Fielded(q) /\ q.clean = r.clean /\ q.to = to /\ q.source = source /\ q.b = r.b /\ q.from = q.b.status
  BY <1>1 DEF Turn, Operation, Fielded
<1>3. ~Turning(r) /\ Busy(o)
  BY <1>1, TurningAt, AtStep DEF Busy
<1>4. ASSUME Turning(q)
      PROVE  OnCourse(q, todo)'
  <2>1. Plan(q, todo)
    BY <1>2 DEF Plan
  <2>2. q.from # q.to
    BY <1>4 DEF Turning
  <2> QED
    BY <1>1, <1>2, <2>1, <2>2, FreshOnCourse
<1>5. op' = Go(o, q, todo)
  BY <1>1
<1> QED
  BY <1>1, <1>2, <1>3, <1>4, <1>5, OwnWhole

LEMMA TurnsWhole ==
  ASSUME Inv, Whole, NEW o \in Ops, Verify(o) \/ Check(o) \/ Probe(o)
  PROVE  Whole' /\ \A p \in Ops : Finishes(p)
<1>1. /\ {"completed", "active"} \subseteq Statuses \cap Reading
      /\ {"completion_sync", "auto_complete"} \subseteq DOMAIN Effects
      /\ {"verify", "check", "probe"} \subseteq Steps \ ChangeSteps
  BY Known DEF Statuses, Reading, Effects, ChangeSteps, CourseSteps, PushSteps
<1>2. PICK from \in Statuses : from = op[o].b.status
  BY OldShape DEF Operation, Book
<1>3. \A to, source : Turn(op[o], to, source).b = op[o].b
  <2>1. PICK r \in Operation : r = op[o]
    BY OldShape
  <2> QED
    BY <2>1 DEF Turn, Operation
<1>4. ASSUME NEW to \in {"completed", "active"}
      PROVE  LET c == Course(from, to, "completion_sync") IN
             /\ Program(c) /\ Once(c) /\ Left(c) \subseteq ChangeSteps /\ (c # << >> => c[1] # "cache")
             /\ from # to => {"dates", "journal", "unlist"} \subseteq Left(c) /\ "grimmory" \in Left(c)
  <2> DEFINE c == Course(from, to, "completion_sync")
  <2>1. CASE from # to
    <3>1. /\ Program(c) /\ Once(c) /\ Left(c) \subseteq CourseSteps /\ c[1] = "save"
          /\ {"dates", "journal", "unlist"} \subseteq Left(c) /\ "grimmory" \in Left(c)
      BY <1>1, <2>1, CourseWhole
    <3> HIDE DEF c
    <3> QED
      BY <3>1 DEF ChangeSteps, c
  <2>2. CASE from = to
    <3> DEFINE g == <<"grimmory">>
    <3>1. c = g
      BY <2>2 DEF Course, If
    <3>2. Program(g) /\ Left(g) = {"grimmory"} /\ Once(g) /\ g[1] = "grimmory"
      BY OneStep, Known DEF Once
    <3> HIDE DEF c, g
    <3>3. Left(c) \subseteq ChangeSteps
      BY <3>1, <3>2 DEF ChangeSteps, CourseSteps
    <3> QED
      BY <2>2, <3>1, <3>2, <3>3 DEF c
  <2> QED
    BY <2>1, <2>2
<1>5. CASE Verify(o)
  <2> DEFINE c == Course(from, "completed", "completion_sync")
  <2>1. PICK todo : /\ op' = Go(o, Turn(op[o], "completed", "completion_sync"), todo)
                    /\ todo = c \/ todo = << >>
    BY <1>2, <1>3, <1>5 DEF Verify, If
  <2>2. At(o, "verify")
    BY <1>5 DEF Verify
  <2>3. /\ Program(c) /\ Once(c) /\ Left(c) \subseteq ChangeSteps /\ (c # << >> => c[1] # "cache")
        /\ from # "completed" => {"dates", "journal", "unlist"} \subseteq Left(c) /\ "grimmory" \in Left(c)
    BY <1>4
  <2> HIDE DEF c
  <2> QED
    BY <1>1, <1>2, <2>1, <2>2, <2>3, NoCourse, TurnWhole
<1>6. CASE Probe(o)
  <2> DEFINE c == Course(from, "active", "completion_sync")
  <2>1. PICK todo : /\ op' = Go(o, Turn(op[o], "active", "completion_sync"), todo)
                    /\ todo = c \/ todo = << >>
    BY <1>2, <1>3, <1>6 DEF Probe, If
  <2>2. At(o, "probe")
    BY <1>6 DEF Probe
  <2>3. /\ Program(c) /\ Once(c) /\ Left(c) \subseteq ChangeSteps /\ (c # << >> => c[1] # "cache")
        /\ from # "active" => {"dates", "journal", "unlist"} \subseteq Left(c) /\ "grimmory" \in Left(c)
    BY <1>4
  <2> HIDE DEF c
  <2> QED
    BY <1>1, <1>2, <2>1, <2>2, <2>3, NoCourse, TurnWhole
<1>7. CASE Check(o)
  <2> DEFINE c == Course(from, "completed", "auto_complete")
             t == <<"mark", "finish">>
             p == PushCourse \o t
             both == c \o p
  <2>1. Program(c) /\ Once(c) /\ Left(c) \subseteq CourseSteps /\ (c # << >> => c[1] = "save")
        /\ (from # "completed" => {"dates", "journal", "unlist"} \subseteq Left(c))
        /\ (from = "completed" => c = << >>)
    <3>1. CASE from # "completed"
      <4>1. /\ Program(c) /\ Once(c) /\ Left(c) \subseteq CourseSteps /\ c[1] = "save"
            /\ {"dates", "journal", "unlist"} \subseteq Left(c)
        BY <1>1, <3>1, CourseWhole
      <4> QED
        BY <3>1, <4>1
    <3>2. CASE from = "completed"
      <4>1. c = << >>
        BY <3>2 DEF Course, If
      <4> HIDE DEF c
      <4> QED
        BY <3>2, <4>1, NoCourse
    <3> QED
      BY <3>1, <3>2
  <2>2. Block(p) /\ Once(p) /\ Left(p) = {"push", "mark", "finish"} \cup PushSteps /\ p # << >> /\ p[1] = "push"
    <3>1. Block(t)
      BY TwoSteps
    <3>2. p # << >> /\ p[1] = "push"
      BY <3>1, PushThen
    <3> QED
      BY <3>2, FinishOnce
  <2>3. both = (c \o PushCourse) \o t
    <3>1. c \in Seq(Steps) /\ PushCourse \in Seq(Steps) /\ t \in Seq(Steps)
      BY <2>1, PushFits, Known DEF Block, Program
    <3> HIDE DEF c, t
    <3> QED
      BY <3>1, ConcatAssociative
  <2>4. PICK todo : /\ op' = Go(o, Turn(op[o], "completed", "auto_complete"), todo)
                    /\ todo = both \/ todo = << >>
    BY <1>2, <1>3, <1>7, <2>3 DEF Check, If
  <2>5. At(o, "check")
    BY <1>7 DEF Check
  <2> HIDE DEF c, p
  <2>6. Program(both) /\ Once(both) /\ Left(both) = Left(c) \cup Left(p) /\ (both # << >> => both[1] # "cache")
    <3>1. Left(c) \cap Left(p) = {}
      BY <2>1, <2>2 DEF CourseSteps, PushSteps
    <3>2. /\ Program(both) /\ Left(both) = Left(c) \cup Left(p)
          /\ c # << >> => both[1] = c[1]
          /\ c = << >> => both = p
      BY <2>1, <2>2, Joined
    <3>3. Once(both)
      BY <2>1, <2>2, <3>1, OnceJoined DEF Block
    <3> HIDE DEF both
    <3> QED
      BY <2>1, <2>2, <3>2, <3>3
  <2> HIDE DEF both
  <2>7. Left(both) \subseteq ChangeSteps /\ "finish" \in Left(both)
        /\ (from # "completed" => {"dates", "journal", "unlist"} \subseteq Left(both))
    BY <2>1, <2>2, <2>6 DEF ChangeSteps
  <2> QED
    BY <1>1, <1>2, <2>4, <2>5, <2>6, <2>7, NoCourse, TurnWhole
<1> QED
  BY <1>5, <1>6, <1>7

\* The steps of what is no change of status.
LEMMA OthersWhole ==
  ASSUME Inv, Whole, NEW o \in Ops,
         \/ Initial(o) \/ (Editions(o) /\ At(o, "editions")) \/ Record(o)
         \/ SaveLink(o) \/ Own(o) \/ Fill(o) \/ SendDates(o) \/ TakeDates(o)
         \/ Want(o) \/ ImportItem(o) \/ StartDate(o) \/ DropItem(o)
  PROVE  Whole' /\ \A p \in Ops : Finishes(p)
<1>1. PICK r \in Operation : r = op[o]
  BY OldShape
<1>2. {"initial", "editions", "record", "link", "own", "fill", "send_dates", "take_dates", "want", "import",
       "tbr_dates", "tbr_done"} \subseteq Steps \ ChangeSteps
  BY DEF Steps, ChangeSteps, CourseSteps, PushSteps
<1>3. ASSUME NEW step \in Steps \ ChangeSteps, At(o, step), NEW q, Fielded(q), Keeps(q, r), NEW rest, op' = Go(o, q, rest)
      PROVE  Whole' /\ \A p \in Ops : Finishes(p)
  BY <1>1, <1>3, OutsideWhole
<1>4. ASSUME NEW step \in Steps \ ChangeSteps, At(o, step), Reads(o, op[o])
      PROVE  Whole' /\ \A p \in Ops : Finishes(p)
  BY <1>1, <1>3, <1>4, OldFields DEF Reads
<1>5. ASSUME NEW step \in Steps \ ChangeSteps, At(o, step), NEW d, Reads(o, [op[o] EXCEPT !.d = d])
      PROVE  Whole' /\ \A p \in Ops : Finishes(p)
  <2>1. PICK q : q = [r EXCEPT !.d = d]
    OBVIOUS
  <2>2. Fielded(q) /\ Keeps(q, r) /\ op' = Go(o, q, Rest(o))
    BY <1>1, <1>5, <2>1, OldFields DEF Reads
  <2> QED
    BY <1>3, <1>5, <2>2
<1>6. CASE Initial(o)
  <2>1. At(o, "initial")
    BY <1>6 DEF Initial
  <2>2. CASE GivesUp(o)
    BY <1>1, <1>2, <1>3, <2>1, <2>2, OldFields DEF GivesUp
  <2>3. CASE Reads(o, [op[o] EXCEPT !.pct = progress, !.b = book])
    <3>1. PICK q : q = [r EXCEPT !.pct = progress, !.b = book]
      OBVIOUS
    <3>2. Fielded(q) /\ Keeps(q, r)
      BY <3>1 DEF Operation, Fielded, Keeps
    <3>3. op' = Go(o, q, Rest(o))
      BY <1>1, <2>3, <3>1 DEF Reads
    <3> QED
      BY <1>2, <1>3, <2>1, <3>2, <3>3
  <2> QED
    BY <1>6, <2>2, <2>3 DEF Initial
<1>7. CASE Editions(o) /\ At(o, "editions")
  <2>1. ~At(o, "resolve")
    BY <1>7 DEF At
  <2> QED
    BY <1>2, <1>5, <1>7, <2>1 DEF Editions
<1>8. CASE Record(o)
  BY <1>2, <1>4, <1>8 DEF Record
<1>9. CASE SaveLink(o)
  BY <1>2, <1>4, <1>9 DEF SaveLink
<1>10. CASE Own(o)
  BY <1>2, <1>5, <1>10 DEF Own
<1>11. CASE Fill(o)
  BY <1>2, <1>4, <1>11 DEF Fill
<1>12. CASE SendDates(o) \/ TakeDates(o)
  BY <1>2, <1>4, <1>12 DEF SendDates, TakeDates
<1>13. CASE Want(o)
  BY <1>2, <1>4, <1>13 DEF Want
<1>14. CASE ImportItem(o)
  <2>1. At(o, "import")
    BY <1>14 DEF ImportItem
  <2>2. ASSUME NEW list, op' = [op EXCEPT ![o] = [op[o] EXCEPT !.list = list]]
        PROVE  Whole' /\ \A p \in Ops : Finishes(p)
    <3>1. PICK q, s : q = [r EXCEPT !.list = list] /\ s = r.todo
      OBVIOUS
    <3>2. Fielded(q) /\ Keeps(q, r) /\ [q EXCEPT !.todo = s] = q
      BY <3>1 DEF Operation, Fielded, Keeps
    <3>3. s # << >>
      BY <1>1, <2>1, <3>1, AtStep
    <3>4. op' = Go(o, q, s)
      BY <1>1, <2>2, <3>1, <3>2, <3>3 DEF Go
    <3> QED
      BY <1>2, <1>3, <2>1, <3>2, <3>4
  <2> QED
    BY <1>2, <1>4, <1>14, <2>1, <2>2 DEF ImportItem
<1>15. CASE StartDate(o) \/ DropItem(o)
  BY <1>2, <1>4, <1>15 DEF StartDate, DropItem
<1> QED
  BY <1>6, <1>7, <1>8, <1>9, <1>10, <1>11, <1>12, <1>13, <1>14, <1>15

\* The operations that begin without a change of status.
LEMMA StartWhole ==
  ASSUME Inv, Whole, NEW o \in Ops, NEW kind, NEW r, Fielded(r), r.source = None, NEW todo, Start(o, kind, r, todo)
  PROVE  Whole' /\ \A p \in Ops : Finishes(p)
<1>1. PICK q : q = [r EXCEPT !.b = book]
  OBVIOUS
<1>2. Fielded(q) /\ q.source = None
  BY <1>1 DEF Fielded
<1>3. ~Busy(o) /\ op' = Begun(o, q, todo)
  BY <1>1 DEF Start
<1> QED
  BY <1>2, <1>3, BegunWhole

LEMMA IdleFields ==
  /\ Fielded(Idle) /\ Idle.source = None
  /\ \A d : LET r == [Idle EXCEPT !.d = d] IN Fielded(r) /\ r.source = None
  /\ \A pct : LET r == [Idle EXCEPT !.pct = pct] IN Fielded(r) /\ r.source = None
  /\ \A list : LET r == [Idle EXCEPT !.list = list] IN Fielded(r) /\ r.source = None
  /\ \A i : LET r == [Idle EXCEPT !.to = "active", !.from = "not_started", !.item = i]
            IN Fielded(r) /\ r.source = None
  BY DEF Idle, Fielded

LEMMA StatusWhole ==
  ASSUME Inv, Whole, NEW o \in Ops, NEW to \in Statuses, SetStatus(o, to)
  PROVE  Whole' /\ \A p \in Ops : Finishes(p)
<1>1. PICK from \in Statuses : from = book.status
  BY Bools DEF Inv
<1>2. PICK q : q = [[Turn(Idle, to, "local") EXCEPT !.from = from] EXCEPT !.b = book]
  OBVIOUS
<1> DEFINE c == Course(from, to, "local")
<1>3. ~Busy(o) /\ op' = Begun(o, q, c)
  BY <1>1, <1>2 DEF SetStatus, Start
<1>4. Fielded(q) /\ q.to = to /\ q.from = from /\ q.source = "local" /\ q.b.status = from
  BY <1>1, <1>2 DEF Turn, Idle, Fielded
<1>5. ASSUME from # to
      PROVE  OnCourse(q, c)'
  <2>1. "local" \in DOMAIN Effects
    BY DEF Effects
  <2>2. /\ Once(c) /\ Left(c) \subseteq CourseSteps /\ c[1] = "save" /\ "dates" \in Left(c)
        /\ "journal" \in Left(c) /\ (to \in Reading => "unlist" \in Left(c))
        /\ "grimmory" \in Left(c) /\ "status" \in Left(c)
    BY <1>5, <2>1, CourseWhole
  <2>3. PICK s : s = c
    OBVIOUS
  <2> HIDE DEF c
  <2>4. Plan(q, s)
    BY <1>4, <2>2, <2>3 DEF Plan, ChangeSteps
  <2>5. OnCourse(q, s)'
    BY <1>4, <1>5, <2>2, <2>3, <2>4, FreshOnCourse
  <2> QED
    BY <2>3, <2>5 DEF c
<1> HIDE DEF c
<1> QED
  BY <1>3, <1>4, <1>5, BegunWhole

LEMMA ProgressWhole ==
  ASSUME Inv, Whole, NEW o \in Ops, NEW p \in Percents, SetProgress(o, p)
  PROVE  Whole' /\ \A x \in Ops : Finishes(x)
<1>1. PICK from \in Statuses : from = book.status
  BY Bools DEF Inv
<1>2. PICK q : q = [[Turn(Idle, "active", "manual_progress") EXCEPT !.from = from, !.pct = p] EXCEPT !.b = book]
  OBVIOUS
<1> DEFINE course == Course("not_started", "active", "manual_progress")
           c == If(p > 0 /\ book.status = "not_started", course)
           x == <<"set">>
           part == c \o x
           all == part \o PushCourse
<1>3. ~Busy(o) /\ op' = Begun(o, q, all)
  BY <1>1, <1>2 DEF SetProgress, Start
<1>4. /\ Fielded(q) /\ q.to = "active" /\ q.from = from /\ q.source = "manual_progress" /\ q.b.status = from
  BY <1>1, <1>2 DEF Turn, Idle, Fielded
<1>5. /\ Program(c) /\ Once(c) /\ Left(c) \subseteq CourseSteps /\ (c # << >> => c[1] = "save" /\ "dates" \in Left(c))
      /\ (c = << >> => Left(c) = {})
  <2>1. {"active", "not_started"} \subseteq Statuses /\ "manual_progress" \in DOMAIN Effects
    BY DEF Statuses, Effects
  <2>2. Program(course) /\ Once(course) /\ Left(course) \subseteq CourseSteps /\ course[1] = "save" /\ "dates" \in Left(course)
        /\ course # << >>
    BY <2>1, CourseWhole
  <2>3. c = course \/ c = << >>
    BY DEF If
  <2> HIDE DEF c, course
  <2> QED
    BY <2>2, <2>3, NoCourse
<1>6. Block(x) /\ Program(x) /\ Once(x) /\ Left(x) = {"set"} /\ x # << >> /\ x[1] = "set"
  BY OneStep, Known DEF Once
<1> HIDE DEF c, x
<1>7. /\ Program(part) /\ Once(part) /\ Left(part) = Left(c) \cup {"set"} /\ part # << >>
      /\ part[1] \in {"save", "set"}
  <2>1. /\ Program(part) /\ Left(part) = Left(c) \cup Left(x)
        /\ c # << >> => part # << >> /\ part[1] = c[1]
        /\ c = << >> => part = x
    BY <1>5, <1>6, Joined
  <2>2. Once(part)
    <3>1. Left(c) \cap Left(x) = {}
      BY <1>5, <1>6 DEF CourseSteps
    <3> QED
      BY <1>5, <1>6, <3>1, OnceJoined
  <2> HIDE DEF part
  <2> QED
    BY <1>5, <1>6, <2>1, <2>2
<1> HIDE DEF part
<1>8. PICK s : s = all
  OBVIOUS
<1>9. /\ Once(s) /\ Left(s) = Left(c) \cup {"set", "push"} \cup PushSteps /\ s[1] \in {"save", "set"}
  <2>1. /\ Left(all) = Left(part) \cup {"push"} \cup PushSteps /\ all[1] = part[1]
    BY <1>7, PushFits, Joined
  <2>2. Program(PushCourse) /\ Once(PushCourse) /\ Left(PushCourse) = {"push"} \cup PushSteps
    BY PushFits, PushOnce DEF Block
  <2>3. Left(part) \cap Left(PushCourse) = {}
    BY <1>5, <1>7, <2>2 DEF CourseSteps, PushSteps
  <2>4. Once(all)
    BY <1>7, <2>2, <2>3, OnceJoined
  <2> HIDE DEF all
  <2> QED
    BY <1>7, <1>8, <2>1, <2>4
<1>10. ASSUME from # "active"
      PROVE  OnCourse(q, s)'
  <2>1. Plan(q, s)
    BY <1>4, <1>5, <1>9 DEF Plan, ChangeSteps
  <2>2. "save" \in Left(s) => "dates" \in Left(s)
    BY <1>5, <1>9 DEF PushSteps
  <2> QED
    BY <1>4, <1>9, <1>10, <2>1, <2>2, FreshOnCourse
<1> HIDE DEF all
<1> QED
  BY <1>3, <1>4, <1>8, <1>10, BegunWhole

LEMMA StartsWhole ==
  ASSUME Inv, Whole, NEW o \in Ops, Starts(o)
  PROVE  Whole' /\ \A p \in Ops : Finishes(p)
<1>1. CASE MarkComplete(o) \/ AutoComplete(o) \/ Promote(o) \/ SyncPush(o)
  <2>1. PICK kind, r, todo : /\ Start(o, kind, r, todo)
                             /\ r = Idle \/ \E pct : r = [Idle EXCEPT !.pct = pct]
    BY <1>1 DEF MarkComplete, AutoComplete, Promote, SyncPush
  <2> QED
    BY <2>1, IdleFields, StartWhole
<1>2. ASSUME NEW h, NEW e, LinkBook(o, h, e) \/ Automatch(o, h)
      PROVE  Whole' /\ \A p \in Ops : Finishes(p)
  <2>1. PICK kind, r, todo : Start(o, kind, r, todo) /\ \E d : r = [Idle EXCEPT !.d = d]
    BY <1>2 DEF LinkBook, Automatch
  <2> QED
    BY <2>1, IdleFields, StartWhole
<1>3. CASE Rate(o) \/ PushDates(o) \/ PullDates(o)
  <2>1. PICK kind, r, todo : Start(o, kind, r, todo) /\ \E d : r = [Idle EXCEPT !.d = d]
    BY <1>3 DEF Rate, PushDates, PullDates
  <2> QED
    BY <2>1, IdleFields, StartWhole
<1>4. CASE Import(o)
  <2>1. PICK kind, r, todo : Start(o, kind, r, todo) /\ \E list : r = [Idle EXCEPT !.list = list]
    BY <1>4 DEF Import
  <2> QED
    BY <2>1, IdleFields, StartWhole
<1>5. ASSUME NEW i \in ItemIds, StartItem(o, i)
      PROVE  Whole' /\ \A p \in Ops : Finishes(p)
  <2>1. PICK kind, r, todo :
          Start(o, kind, r, todo) /\ r = [Idle EXCEPT !.to = "active", !.from = "not_started", !.item = i]
    BY <1>5 DEF StartItem
  <2> QED
    BY <2>1, IdleFields, StartWhole
<1> QED
  BY <1>1, <1>2, <1>3, <1>4, <1>5, StatusWhole, ProgressWhole DEF Starts

LEMMA AddWhole ==
  ASSUME Inv, Whole, NEW o \in Ops, NEW h \in HcBooks, AddItem(o, h)
  PROVE  Whole' /\ \A p \in Ops : Finishes(p)
<1>1. CASE op' = Touched(op)
  BY <1>1, EditWhole
<1>2. CASE op' = Begun(o, [Idle EXCEPT !.d = Linked(h, None), !.b = book], <<"want">>)
  <2>1. PICK q, todo : q = [Idle EXCEPT !.d = Linked(h, None), !.b = book] /\ todo = <<"want">>
    OBVIOUS
  <2>2. Fielded(q) /\ q.source = None
    BY <2>1 DEF Idle, Fielded
  <2>3. ~Busy(o) /\ op' = Begun(o, q, todo)
    BY <1>2, <2>1 DEF AddItem
  <2> QED
    BY <2>2, <2>3, BegunWhole
<1> QED
  BY <1>1, <1>2 DEF AddItem

\* The user's edits, a report and a crash.
LEMMA UserWhole ==
  ASSUME Inv, Whole, User \/ Crash \/ UNCHANGED vars
  PROVE  Whole' /\ \A p \in Ops : Finishes(p)
<1>1. CASE Crash
  <2>1. faults' # 0
    BY <1>1, TrackerAssumption DEF Crash, Inv, TypeOK
  <2>2. \A o \in Ops : op'[o].todo = << >>
    BY <1>1, IdleFits DEF Crash
  <2> QED
    BY <2>1, <2>2 DEF Whole, CleanAlone, Busy, Finishes
<1>2. ASSUME op' = op, UNCHANGED <<book, journal, tbr, grimmory, details, remote, faults>>
      PROVE  Whole' /\ \A p \in Ops : Finishes(p)
  <2>1. Whole'
    BY <1>2 DEF Whole, CleanAlone, Busy, Turning, OnCourse, Plan, Due, Dated, BookKept, JournalKept, ListKept,
                GrimmoryKept, MirrorKept
  <2>2. \A p \in Ops : ~Done(p)
    BY <1>2 DEF Done
  <2> QED
    BY <2>1, <2>2 DEF Finishes
<1>3. ASSUME NEW p \in Percents, Report(p)
      PROVE  op' = op /\ UNCHANGED <<book, journal, tbr, grimmory, details, remote, faults>>
  BY <1>3 DEF Report, mirror
<1>4. User => op' = Touched(op) \/ \E p \in Percents : Report(p)
  BY DEF User, PickCover, EditDates, DeleteEntry, EditEntry, AddFromLibrary, DeleteItem, LinkItem, PatchItem, Edit
<1>5. CASE UNCHANGED vars
  BY <1>2, <1>5 DEF vars
<1> QED
  BY <1>1, <1>2, <1>3, <1>4, <1>5, EditWhole

LEMMA NextWhole ==
  ASSUME Inv, Whole, [Next]_vars
  PROVE  Whole' /\ \A o \in Ops : Finishes(o)
<1>1. ASSUME NEW o \in Ops, Transition(o)
      PROVE  Whole' /\ \A p \in Ops : Finishes(p)
  BY <1>1, SaveWhole, JournalWhole, DatesWhole, TellWhole, CacheWhole, UnlistWhole, GrimmoryWhole DEF Transition
<1>2. ASSUME NEW o \in Ops, Pushing(o)
      PROVE  Whole' /\ \A p \in Ops : Finishes(p)
  <2>1. Editions(o) => At(o, "editions") \/ At(o, "resolve")
    BY DEF Editions
  <2> QED
    BY <1>2, <2>1, PushesWhole, OthersWhole DEF Pushing
<1>3. ASSUME NEW o \in Ops, Linking(o)
      PROVE  Whole' /\ \A p \in Ops : Finishes(p)
  BY <1>3, OthersWhole, StartsWhole DEF Linking, Starts
<1>4. ASSUME NEW o \in Ops, Tracking(o)
      PROVE  Whole' /\ \A p \in Ops : Finishes(p)
  BY <1>4, MarksWhole, GrimmoryWhole, TurnsWhole, StartsWhole DEF Tracking, Starts
<1>5. ASSUME NEW o \in Ops, Listing(o)
      PROVE  Whole' /\ \A p \in Ops : Finishes(p)
  BY <1>5, OthersWhole, StartsWhole, AddWhole DEF Listing, Starts
<1> QED
  BY <1>1, <1>2, <1>3, <1>4, <1>5, UserWhole DEF Next

LEMMA InitWhole ==
  ASSUME Init
  PROVE  Whole
<1>1. \A o \in Ops : op[o].todo = << >>
  BY IdleFits DEF Init
<1> QED
  BY <1>1 DEF Whole, CleanAlone, Busy

\* A change of status that no other operation or edit came upon does all of what it stands
\* for, whichever of the four sources it has: the status, its date and journal entry, the
\* list and, if no call failed, Grimmory and the status at Hardcover.
THEOREM ChangeIsWholeCorrect == Spec => ChangeIsWhole
<1>1. Init => Inv /\ Whole
  BY InitInv, InitWhole
<1>2. Inv /\ Whole /\ [Next]_vars => (Inv /\ Whole)'
  BY NextInv, NextWhole
<1> DEFINE whole == \A o \in Ops : Finishes(o)
<1>3. Inv /\ Whole /\ [Next]_vars => [whole]_vars
  BY NextWhole
<1>4. Spec => [][whole]_vars
  BY <1>1, <1>2, <1>3, PTL DEF Spec
<1> QED
  BY <1>4 DEF ChangeIsWhole, Finishes
=============================================================================
