----------------------------- MODULE MCProofsPosts -----------------------------
(***************************************************************************)
(* Two sides of stamp_submissions: a proof on its way to its verdict and   *)
(* its badges (ProofReview), and an approved one as a post of the feed     *)
(* (Feed).  The verdict's columns and the feed's are written by different  *)
(* transactions under the row's lock, so each side is checked on its own:  *)
(* `part` says which one a behaviour is of.  The third part is the loop    *)
(* that counts the rows of completed missions for the badges (BadgeTally). *)
(***************************************************************************)
EXTENDS MCProofReview, BadgeTally

CONSTANTS Users, Posts, Captions, FeedRequests

ASSUME CaptionsAssumption == Null \notin Captions \cup [public : BOOLEAN, marked : BOOLEAN]

VARIABLES part, post, shown, marks, feed_pc, job, feed_draft, feed_snap

Community == INSTANCE Feed WITH
    Requests <- FeedRequests, pc <- feed_pc, draft <- feed_draft, snap <- feed_snap

(* Rows of seven courses that between them reach every branch of           *)
(* mission_sport: verified identities with and without an environment, the *)
(* Olympic course, an alias, the fallback to the activity's label, a label *)
(* nobody knows, and a course with two rows of different sports.           *)
TallyAliases == [trekking |-> {"walking", "trekking"}, ski |-> {"ski"},
                   surfing |-> {"surf"}, canoe |-> {"canoe"},
                   cycling |-> {"mtb"}, rafting |-> {"rafting"},
                   running |-> {"marathon"}]
TallyOlympic == {"olympic"}
TallyVerified == [yacht |-> [sport |-> "sailing", setting |-> "marine"],
                       museum |-> [sport |-> none, setting |-> none],
                       sunrise |-> [sport |-> "trekking", setting |-> none]]
TallySpecial == [sunrise |-> "first_sunrise"]

TallyRow(course, identity, course_sport, activity_sport, mountain) ==
    [course |-> course, identity |-> identity, course_sport |-> course_sport,
     activity_sport |-> activity_sport, mountain |-> mountain]

TallyFacts == {TallyRow("c1", "yacht", "canoe", "canoe", FALSE),
            TallyRow("c2", "museum", "trekking", "trekking", FALSE),
            TallyRow("c3", "sunrise", "", "", FALSE),
            TallyRow("c4", "plain", "olympic", "ski", FALSE),
            TallyRow("c5", "plain", "walking", "ski", TRUE),
            TallyRow("c5", "plain2", "walking", "", TRUE),
            TallyRow("c6", "plain", "", "surf", FALSE),
            TallyRow("c6", "plain2", "", "trekking", FALSE),
            TallyRow("c7", "plain", "bobsleigh", "bobsleigh", FALSE),
            TallyRow("c7", "plain2", "bobsleigh", "rafting", FALSE),
            TallyRow("c7", "plain3", "bobsleigh", "mtb", TRUE),
            TallyRow("c6", "plain3", "", "rafting", FALSE)}

feedVars == <<post, shown, marks, feed_pc, job, feed_draft, feed_snap>>

SidesInit ==
    /\ part \in {"proofs", "posts", "tally"} /\ Init /\ Community!Init /\ TallyInit
    /\ part # "posts" => \A p \in Posts : ~post[p].shared /\ post[p].caption = CHOOSE c \in Captions : TRUE
SidesNext ==
    /\ part' = part
    /\ \/ part = "proofs" /\ Next /\ UNCHANGED <<feedVars, tallyVars>>
       \/ part = "posts" /\ Community!Next /\ UNCHANGED <<vars, tallyVars>>
       \/ part = "tally" /\ TallyNext /\ UNCHANGED <<vars, feedVars>>
SidesSpec == SidesInit /\ [][SidesNext]_<<part, vars, feedVars, tallyVars>>

(* Feed: a list of comments that is answered is of a post that was public   *)
(* in one snapshot of the reader's transaction.                             *)
PrivateUnread == Community!PrivateUnread
(* Feed: a deletion is for good. *)
DeletedForGood == Community!DeletedForGood
(* Feed: the feed's handlers leave the verdict alone, a verdict the feed's  *)
(* columns, and hiding a post keeps its caption.                            *)
CertificationApart == Community!CertificationApart

SidesSymmetry == Permutations(Requests) \cup Permutations(FeedRequests)
===============================================================================
