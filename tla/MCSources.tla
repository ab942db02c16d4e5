----------------------------- MODULE MCSources -----------------------------
(* An instance of Sources.  The clock goes from 2 to 4; a second has ten   *)
(* milliseconds, and numbers above ten are taken for those.                *)
EXTENDS Sources

Forever == 9

\* A token that expires between two reads, and one that outlives the call, each
\* in some of the forms the vendor's tools have used.
MCKeychainItems ==
  {Is("absent"), Is("garbage"), Claude(TRUE, InMillis(3), NoField, NoField, 3),
   Claude(TRUE, InMillis(6), NoField, NoField, 6), Claude(FALSE, InMillis(6), NoField, NoField, 6)}

MCFileContents ==
  {Is("absent"), Is("unreadable"), Is("blank"), Claude(TRUE, NoField, InSeconds(3), NoField, 3),
   Claude(TRUE, Date(6), InSeconds(3), NoField, 6), Claude(TRUE, Unreadable, InSeconds(6), InSeconds(4), 4),
   Claude(TRUE, Number(0), NoField, NoField, Forever)}

Entry(box, key, is) == [box |-> box, key |-> key, is |-> is]
Win(box, key)       == Entry(box, key, "window")

MCBodies ==
  {{}, {Entry("root", "account", "other")},
   {Win("root", "five_hour"), Entry("limits", "seven_day", "misdated"), Win("windows", "daily")},
   {Win("root", "five_hour"), Win("root", "seven_day"), Entry("root", "seven_day_opus", "other")},
   {Win("root", "five_hour"), Win("limits", "session"), Win("windows", "seven_day_opus"), Win("windows", "weekly")},
   {Win("rate_limits", "five_hour"), Win("rate_limits", "5h"), Win("root", "weekly")}}

Codex(mode, key, tokens, id, expires_at) ==
  [is |-> "auth", mode |-> mode, key |-> key, tokens |-> tokens, id |-> id, access |-> tokens,
   refresh |-> tokens, expires_at |-> expires_at, exp |-> NoField]

MCAuthFiles ==
  {Is("absent"), Is("unreadable"), Is("blank"), Is("garbage"), Codex("chatgpt", FALSE, TRUE, "jwt", InMillis(3)),
   Codex("chatgpt", FALSE, TRUE, "opaque", NoField), Codex("API_KEY", TRUE, TRUE, "none", InSeconds(6)),
   Codex("api_key", TRUE, FALSE, "none", NoField), Codex("chatgpt", FALSE, FALSE, "none", NoField)}

MCSessions == {"s1", "s2"}

ASSUME ExpiriesAssumption == ExpiriesAreTold
=============================================================================
