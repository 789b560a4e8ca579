SPECIFICATION Spec
CONSTANT
    Configs <- MCConfigs
INVARIANTS
    ClassesAddUp AllRepresented LaidOutOverChip
