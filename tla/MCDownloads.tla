---------------------------- MODULE MCDownloads ----------------------------
\* Instances of Downloads for TLC: the chain of app.go, and lengths on both sides of
\* every bound of the policy, a half second apart where rounding decides.
EXTENDS Downloads

MCChain == <<"soundcloud", "youtube">>
MCDurations == {0, 30, 105}
MCLengths == {0, 38, 39, 118, 119, 121, 188, 189, 270, 271}
=============================================================================
