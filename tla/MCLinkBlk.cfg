SPECIFICATION OneSideSpec
CONSTANT Worlds <- AllTimings
INVARIANTS TypeOK AnswerIsMine ReadyIfQuick CardGetsTheData
PROPERTIES Recovers MasterComesBack SlaveComesBack
