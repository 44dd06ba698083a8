---------------------------- MODULE MCModelHealth ----------------------------
EXTENDS ModelHealth
CONSTANTS gpt, mini
OneModel == <<gpt>>
TwoModels == <<gpt, mini>>
==============================================================================
